---- MODULE Spec2Model ----
(***************************************************************************)
(* Model of the hsafa python SDK event-stream core:                        *)
(*   hsafa/sse.py                 SSEStream (read loop, parser, decoder,   *)
(*                                dispatcher, reconnection)                *)
(*   hsafa/resources/messages.py  MessagesResource.send_and_wait           *)
(*                                                                         *)
(* Python values are modelled as strings: a python str is the string       *)
(* itself, the other scalars are the names "#None", "#False", "#0", and a  *)
(* dict is the name of an entry of ObjTable.  A wire line is a sequence of *)
(* tokens: ":" and " " are single characters, every other token is an      *)
(* indivisible run of characters without colon or space.                   *)
(***************************************************************************)
EXTENDS Integers, Sequences, FiniteSets, TLC

(* ---------------------------------------------------------------------- *)
(* Bounds of the model                                                     *)
(* ---------------------------------------------------------------------- *)
\* lines delivered to one wait (both streams together), with transport faults
MaxLines == 4
\* lines delivered to one wait (both streams together), without
MaxResultLines == 6
\* connect attempts of one stream
MaxConnects == 2
\* consecutive failures of one stream with reconnection enabled
MaxAttempts == 6
\* transport faults (failed connect, failed read, end of response) of one wait
MaxFaults == 1
\* calls of close() on the free-standing stream
MaxCloseCalls == 1
\* lines delivered to the free-standing stream
MaxStreamLines == 3
\* lines delivered to the stream of the dispatcher
MaxDispatchLines == 4
\* calls of on() and off() on the stream of the dispatcher
MaxRegs == 3
\* lines delivered to the stream of the frame parser
MaxFrameLines == 5
\* lines delivered to the stream of the tool worker
MaxToolLines == 6
\* lines read by the two streams of a wait together, in the settlement runs
MaxSettleLines == 4
\* lines delivered to the stream that is sent field lines
MaxFieldLines == 4
\* lines delivered to the stream that is sent events of type "*"
MaxWildLines == 4

(* ---------------------------------------------------------------------- *)
(* Python values                                                           *)
(* ---------------------------------------------------------------------- *)
PyNone == "#None"
PyFalse == "#False"
PyZero == "#0"
EmptyDict == "{}"

\* the types of the numbered events
EventTypes == {"a", "b"}

\* the name of the document {"type": t, "seq": n}
EventDoc(t, n) == "{" \o t \o ToString(n) \o "}"

\* the numbered documents: the gateway numbers its events with "seq"
SeqDocs ==
  [ d \in { EventDoc(t, n) : t \in EventTypes, n \in 1..MaxDispatchLines } |->
      LET tn == CHOOSE tn \in EventTypes \X (1..MaxDispatchLines) :
                  EventDoc(tn[1], tn[2]) = d
      IN ("type" :> tn[1] @@ "seq" :> ToString(tn[2])) ]

\* the decoded JSON objects that occur on the wire, by name
ObjTable ==
     "{}"            :> <<>>
  @@ "{ok}"          :> ("ok" :> "#True")
  @@ "{msg}"         :> ("type" :> "space.message" @@ "data" :> "{msg.d}")
  @@ "{msg.d}"       :> ("message" :> "{msg.m}")
  @@ "{msg.m}"       :> ("role" :> "assistant" @@ "content" :> "hi")
  @@ "{msg2}"        :> ("type" :> "space.message" @@ "data" :> "{msg2.d}")
  @@ "{msg2.d}"      :> ("message" :> "{msg2.m}")
  @@ "{msg2.m}"      :> ("role" :> "agent" @@ "content" :> "yo")
  @@ "{inactive}"    :> ("type" :> "agent.inactive" @@ "runId" :> "r1")
  @@ "{inactive2}"   :> ("type" :> "agent.inactive" @@ "runId" :> "r2")
  @@ "{error}"       :> ("type" :> "error")
  @@ "{error2}"      :> ("type" :> "error" @@ "data" :> "{error2.d}")
  @@ "{error2.d}"    :> ("error" :> "gone")
  @@ "{error3}"      :> ("type" :> "error" @@ "data" :> "down")
  @@ "{started1}"    :> ("type" :> "tool.started" @@ "data" :> "{started1.d}")
  @@ "{started1.d}"  :> ("streamId" :> "1" @@ "toolName" :> "x")
  @@ "{started1b}"   :> ("type" :> "tool.started" @@ "data" :> "{started1b.d}")
  @@ "{started1b.d}" :> ("streamId" :> "1" @@ "toolName" :> "z")
  @@ "{started2}"    :> ("type" :> "tool.started" @@ "data" :> "{started2.d}")
  @@ "{started2.d}"  :> ("toolCallId" :> "2" @@ "toolName" :> "y")
  @@ "{done1}"       :> ("type" :> "tool.done" @@ "data" :> "{done1.d}")
  @@ "{done1.d}"     :> ("streamId" :> "1" @@ "result" :> "{ok}")
  @@ "{done1f}"      :> ("type" :> "tool.done" @@ "data" :> "{done1f.d}")
  @@ "{done1f.d}"    :> ("streamId" :> "1" @@ "result" :> "#False")
  @@ "{completed}"   :> ("type" :> "run.completed")
  @@ "{failed}"      :> ("type" :> "run.failed" @@ "data" :> "{failed.d}")
  @@ "{failed.d}"    :> ("errorMessage" :> "boom")
  @@ "{failed0}"     :> ("type" :> "run.failed")
  @@ "{failed3}"     :> ("type" :> "run.failed" @@ "data" :> "down")
  @@ "{ping}"        :> ("type" :> "ping" @@ "id" :> "7")
  @@ "{star}"        :> ("type" :> "*")
  @@ "{count}"       :> ("type" :> "count" @@ "data" :> "{ok}")
  @@ "{count0}"      :> ("type" :> "count" @@ "data" :> PyZero)
  @@ "{count.e}"     :> ("type" :> "count" @@ "data" :> EmptyDict)
  @@ "{call1}"       :> ("type" :> "tool.call" @@ "data" :> "{call1.d}")
  @@ "{call1.d}"     :> ("toolCallId" :> "c1" @@ "toolName" :> "fetch"
                         @@ "args" :> "{ok}" @@ "runId" :> "r1")
  @@ "{call2}"       :> ("type" :> "tool.call" @@ "data" :> "{call2.d}")
  @@ "{call2.d}"     :> ("toolCallId" :> "c2" @@ "toolName" :> "other"
                         @@ "args" :> "{ok}" @@ "runId" :> "r1")
  @@ "{call3}"       :> ("type" :> "tool.call" @@ "data" :> "{call3.d}")
  @@ "{call3.d}"     :> ("toolCallId" :> "c3" @@ "toolName" :> "mail" @@ "runId" :> "r2")
  @@ "{call4}"       :> ("type" :> "tool.call" @@ "data" :> "#True")
  @@ SeqDocs

IsDict(v) == v \in DOMAIN ObjTable

\* python truthiness
Truthy(v) == v \notin {PyNone, PyFalse, PyZero, "", EmptyDict}

\* a or b
PyOr(a, b) == IF Truthy(a) THEN a ELSE b

\* d.get(k, default) of a dict d
GetD(d, k, default) == IF k \in DOMAIN ObjTable[d] THEN ObjTable[d][k] ELSE default

\* d.get(k)
Get(d, k) == GetD(d, k, PyNone)

\* str(v)
Str(v) ==
  CASE v = PyNone  -> "None"
    [] v = PyFalse -> "False"
    [] v = "#True" -> "True"
    [] v = PyZero  -> "0"
    [] IsDict(v)   -> "repr" \o v
    [] OTHER       -> v

Min(a, b) == IF a < b THEN a ELSE b

(* ---------------------------------------------------------------------- *)
(* Frame parser: one line of SSEStream._run                                *)
(* ---------------------------------------------------------------------- *)
\* the concatenation of the tokens of a value: the python str it stands for
RECURSIVE Text(_)
Text(toks) == IF toks = <<>> THEN "" ELSE Head(toks) \o Text(Tail(toks))

\* line.find(":"), counted from 1; 0 when the line has no field colon
RECURSIVE FindFrom(_, _)
FindFrom(ln, i) ==
  IF i > Len(ln) THEN 0
  ELSE IF ln[i] = ":" THEN i
  ELSE FindFrom(ln, i + 1)

FindColon(ln) == FindFrom(ln, 1)

\* value.lstrip(" ")
RECURSIVE LStrip(_)
LStrip(toks) ==
  IF toks # <<>> /\ Head(toks) = " " THEN LStrip(Tail(toks)) ELSE toks

\* current = {"data": [], "id": None, "type": None}
EmptyFrame == [data |-> <<>>, id |-> PyNone, type |-> PyNone]

\* the accumulator after a field line
SetField(cur, field, value) ==
  CASE field = <<"id">>    -> [cur EXCEPT !.id = Text(value)]
    [] field = <<"event">> -> [cur EXCEPT !.type = Text(value)]
    [] field = <<"data">>  -> [cur EXCEPT !.data = Append(@, value)]
    [] OTHER               -> cur

\* the accumulator after one line
ParseField(cur, ln) ==
  LET colon == FindColon(ln) IN
  IF colon = 0 THEN cur
  ELSE SetField(cur, SubSeq(ln, 1, colon - 1), LStrip(SubSeq(ln, colon + 1, Len(ln))))

IsComment(ln) == ln # <<>> /\ Head(ln) = ":"

\* NextFrame without the reset at the blank line
NextFrame_keep(cur, ln) ==
  IF IsComment(ln) \/ ln = <<>> THEN cur ELSE ParseField(cur, ln)

\* the accumulator after one line of the response
NextFrame(cur, ln) ==
  IF IsComment(ln) THEN cur
  ELSE IF ln = <<>> THEN EmptyFrame
  ELSE ParseField(cur, ln)

\* Handed handing the frame over with each data line, before its blank line
Handed_early(cur, ln) ==
  IF ~IsComment(ln) /\ ln # <<>> /\ ParseField(cur, ln).data # cur.data
  THEN <<ParseField(cur, ln)>>
  ELSE IF ~IsComment(ln) /\ ln = <<>> /\ cur.data # <<>> THEN <<cur>> ELSE <<>>

\* the frames handed to _process_raw by one line: none or one
Handed(cur, ln) ==
  IF ~IsComment(ln) /\ ln = <<>> /\ cur.data # <<>> THEN <<cur>> ELSE <<>>

(* ---------------------------------------------------------------------- *)
(* Event decoder: SSEStream._process_raw                                   *)
(* ---------------------------------------------------------------------- *)
\* "\n".join(raw["data"])
RECURSIVE Join(_)
Join(vals) ==
  IF vals = <<>> THEN <<>>
  ELSE IF Len(vals) = 1 THEN vals[1]
  ELSE vals[1] \o <<"\n">> \o Join(Tail(vals))

IsSpace(t) == t \in {" ", "\n"}

RECURSIVE RStrip(_)
RStrip(toks) ==
  IF toks # <<>> /\ IsSpace(toks[Len(toks)]) THEN RStrip(SubSeq(toks, 1, Len(toks) - 1))
  ELSE toks

RECURSIVE LStripWs(_)
LStripWs(toks) ==
  IF toks # <<>> /\ IsSpace(Head(toks)) THEN LStripWs(Tail(toks)) ELSE toks

JsonError == "#JSONDecodeError"

\* JsonLoads reading the first document of the text and no further
JsonLoads_lenient(text) ==
  LET body == LStripWs(text) IN
  IF body # <<>> /\ IsDict(body[1]) THEN body[1] ELSE JsonError

\* json.loads(text): a document between optional white space
JsonLoads(text) ==
  LET body == RStrip(LStripWs(text)) IN
  IF Len(body) = 1 /\ IsDict(body[1]) THEN body[1]
  ELSE IF Len(body) = 1 /\ body[1] = "null" THEN PyNone
  ELSE JsonError

\* the event built from a parsed document
MakeEvent(raw, parsed) ==
  LET data_field == PyOr(Get(parsed, "data"), parsed) IN
  [ id            |-> PyOr(raw.id, GetD(parsed, "id", "")),
    type          |-> PyOr(PyOr(Get(parsed, "type"), raw.type), "unknown"),
    ts            |-> GetD(parsed, "ts", ""),
    data          |-> data_field,
    smartSpaceId  |-> Get(parsed, "smartSpaceId"),
    runId         |-> PyOr(Get(parsed, "runId"),
                           IF IsDict(data_field) THEN Get(data_field, "runId") ELSE PyNone),
    entityId      |-> Get(parsed, "entityId"),
    agentEntityId |-> Get(parsed, "agentEntityId"),
    seq           |-> Get(parsed, "seq") ]

\* the events emitted for one raw frame: none or one
ProcessRaw(raw) ==
  LET data_str == Join(raw.data) IN
  IF data_str = <<>> THEN <<>>
  ELSE LET parsed == JsonLoads(data_str) IN
       IF ~IsDict(parsed) THEN <<>>
       ELSE <<MakeEvent(raw, parsed)>>

(* ---------------------------------------------------------------------- *)
(* State                                                                   *)
(* ---------------------------------------------------------------------- *)
\* the two streams of a wait and one free-standing stream
Streams == {"space", "run", "stream"}
WaitStreams == {"space", "run"}

VARIABLES
  cfg,          \* constructor arguments of each stream
  handlers,     \* _handlers: event type -> listeners in registration order
  closed,       \* _closed
  attempts,     \* _reconnect_attempts
  pc,           \* position of each stream's thread in _run
  current,      \* the frame accumulator of _run
  line,         \* the line _run holds
  exc,          \* the exception _run is handling
  ev,           \* the event _emit is dispatching (none or one)
  todo,         \* the listener _emit is invoking for it, with the list the
                \* listener comes from and the position of the iterator in it
  hist,         \* observations of each stream (not program state)
  cpc,          \* position of the caller in send_and_wait
  settled,      \* _settled[0]
  done_event,   \* done_event
  error_holder, \* error_holder: empty or the "error" entry
  lock,         \* holder of the lock `settled`, "" when free
  text_parts,   \* text_parts
  tool_calls,   \* tool_calls, in insertion order
  outcome,      \* what send_and_wait returns or raises
  whist,        \* observations of the wait (not program state)
  worker        \* the tool worker: the client's secret key, the handlers given
                \* to tools.listen, the handler threads, the submissions

streamVars == <<cfg, handlers, closed, attempts, pc, current, line, exc, ev, todo, hist>>
waitVars == <<cpc, settled, done_event, error_holder, lock, text_parts, tool_calls,
              outcome, whist, worker>>
vars == <<cfg, handlers, closed, attempts, pc, current, line, exc, ev, todo, hist,
          cpc, settled, done_event, error_holder, lock, text_parts, tool_calls,
          outcome, whist, worker>>

\* SSEStream.__init__ defaults
DefaultDelay == 1
DefaultMaxDelay == 30
\* reconnect_delay of tools.listen
ToolWorkerDelay == 2

NoHist ==
  [ connects |-> 0,    \* connect attempts begun
    fails    |-> 0,    \* failures since the last successful open
    sleeps   |-> 0,    \* backoff sleeps
    lastN    |-> 0,    \* value of fails at the last sleep
    lastD    |-> 0,    \* length of the last sleep
    errs     |-> 0,    \* on_error calls
    lastErr  |-> "",   \* argument of the last on_error call
    closes   |-> 0,    \* on_close calls
    closeCalls |-> 0,  \* close() calls
    late     |-> FALSE,\* the line held was read after close()
    nlines   |-> 0,    \* lines read
    calls    |-> 0,    \* invocations of the probe listener
    log      |-> <<>>, \* the events handed to _emit, in order
    trace    |-> <<>>, \* the invocations of the probing listeners, in order
    dirty    |-> FALSE,\* on() or off() was called during the dispatch under way
    handed   |-> 0,    \* frames handed to _process_raw
    dataSince |-> 0,   \* data lines parsed since the last blank line or open
    fieldSince |-> FALSE, \* an id or event line was parsed since then
    regs     |-> 0,    \* calls of on() and off() after construction
    stopBy   |-> "" ]  \* how _run ended

NoWHist ==
  [ writes   |-> 0,     \* executions of _settled[0] = True
    won      |-> "",    \* the stream whose listener executed it first
    first    |-> <<>>,  \* the event that listener was invoked for
    lost     |-> {},    \* the streams a listener of which found the flag set
    timedOut |-> FALSE, \* done_event.wait returned False
    seen     |-> <<>> ] \* the events delivered before the result was built

\* no tool worker: a client without keys, tools.listen not called
NoWorker ==
  [ secret_key |-> PyNone,  \* HttpClient.secret_key
    tools      |-> <<>>,    \* the handlers argument of listen: tool name -> handler
    listen     |-> "",      \* how the call of listen ended
    threads    |-> <<>>,    \* the run_handler threads, in the order of their start
    posts      |-> <<>> ]   \* the submit_result calls, in order

\* SSEStream(url, headers, reconnect=..., ...)
NewStream(reconnect, delay, maxDelay, onOpen, onError, onClose) ==
  [ reconnect |-> reconnect, reconnect_delay |-> delay,
    max_reconnect_delay |-> maxDelay,
    on_open |-> onOpen, on_error |-> onError, on_close |-> onClose ]

NoStream == NewStream(FALSE, 0, 0, FALSE, FALSE, FALSE)

(* ---------------------------------------------------------------------- *)
(* SSEStream                                                               *)
(* ---------------------------------------------------------------------- *)
\* on(event_type, handler)
On(h, event_type, handler) ==
  IF event_type \in DOMAIN h THEN [h EXCEPT ![event_type] = Append(@, handler)]
  ELSE h @@ (event_type :> <<handler>>)

\* lst.remove(handler): the first occurrence goes, ValueError when absent
RECURSIVE Remove(_, _)
Remove(lst, handler) ==
  IF lst = <<>> THEN <<>>
  ELSE IF Head(lst) = handler THEN Tail(lst)
  ELSE <<Head(lst)>> \o Remove(Tail(lst), handler)

\* off(event_type, handler)
Off(h, event_type, handler) ==
  IF event_type \in DOMAIN h THEN [h EXCEPT ![event_type] = Remove(@, handler)]
  ELSE h

\* self._handlers.get(event_type, [])
HandlerList(h, event_type) == IF event_type \in DOMAIN h THEN h[event_type] ELSE <<>>

\* the listeners _emit invokes for an event type when the registry does not
\* change during the dispatch, in order
Listeners(h, event_type) == HandlerList(h, event_type) \o HandlerList(h, "*")

\* NextListener with the loop over the list of "*" before the loop over the
\* list of the event type
NextListener_wildFirst(h, event_type, list, idx) ==
  IF (list = "*" \/ idx = 0) /\ (IF list = "*" THEN idx ELSE 0) < Len(HandlerList(h, "*"))
  THEN LET j == IF list = "*" THEN idx ELSE 0 IN <<HandlerList(h, "*")[j + 1], "*", j + 1>>
  ELSE LET k == IF list = "type" THEN idx ELSE 0 IN
       IF k < Len(HandlerList(h, event_type))
       THEN <<HandlerList(h, event_type)[k + 1], "type", k + 1>>
       ELSE <<>>

\* the two for loops of _emit are at position idx of the list `list` (the
\* event type's list, then the list of "*"): the next listener they invoke,
\* as <<listener, list, position>>, or <<>> when both loops are over.  The
\* iterator of a python list reads the list as it is when it advances.
NextListener(h, event_type, list, idx) ==
  IF list = "type" /\ idx < Len(HandlerList(h, event_type))
  THEN <<HandlerList(h, event_type)[idx + 1], "type", idx + 1>>
  ELSE LET j == IF list = "type" THEN 0 ELSE idx IN
       IF j < Len(HandlerList(h, "*"))
       THEN <<HandlerList(h, "*")[j + 1], "*", j + 1>>
       ELSE <<>>

\* start()
Start(s) ==
  /\ pc[s] = "init"
  /\ pc' = [pc EXCEPT ![s] = "loop"]

\* close()
Close(s) ==
  /\ closed' = [closed EXCEPT ![s] = TRUE]
  /\ hist' = [hist EXCEPT ![s].closeCalls = @ + 1,
                          ![s].closes = IF cfg[s].on_close THEN @ + 1 ELSE @]

\* while not self._closed:
LoopCheck(s) ==
  /\ pc[s] = "loop"
  /\ IF closed[s]
     THEN /\ pc' = [pc EXCEPT ![s] = "stopped"]
          /\ hist' = [hist EXCEPT ![s].stopBy = "closed"]
     ELSE /\ pc' = [pc EXCEPT ![s] = "connect"]
          /\ hist' = [hist EXCEPT ![s].connects = @ + 1]
  /\ UNCHANGED <<cfg, handlers, closed, attempts, current, line, exc, ev, todo>>
  /\ UNCHANGED waitVars

\* ConnectOk without the reset of the attempt counter
ConnectOk_noReset(s) ==
  /\ pc[s] = "connect"
  /\ attempts' = attempts
  /\ current' = [current EXCEPT ![s] = EmptyFrame]
  /\ pc' = [pc EXCEPT ![s] = "iter"]
  /\ hist' = [hist EXCEPT ![s].fails = 0, ![s].dataSince = 0, ![s].fieldSince = FALSE]
  /\ UNCHANGED <<cfg, handlers, closed, line, exc, ev, todo>>
  /\ UNCHANGED waitVars

\* requests.get(...) answers ok: reset the counter, call on_open (which has
\* no access to the stream's state), start reading
ConnectOk(s) ==
  /\ pc[s] = "connect"
  /\ attempts' = [attempts EXCEPT ![s] = 0]
  /\ current' = [current EXCEPT ![s] = EmptyFrame]
  /\ pc' = [pc EXCEPT ![s] = "iter"]
  /\ hist' = [hist EXCEPT ![s].fails = 0, ![s].dataSince = 0, ![s].fieldSince = FALSE]
  /\ UNCHANGED <<cfg, handlers, closed, line, exc, ev, todo>>
  /\ UNCHANGED waitVars

\* the environment raises failures while this holds
MayFail(s) == hist[s].fails < MaxAttempts /\ hist[s].connects <= MaxAttempts

\* requests.get(...) raises, or the response is not ok
ConnectFail(s) ==
  /\ pc[s] = "connect"
  /\ MayFail(s)
  /\ \E e \in {"RequestException", "ConnectionError"} :
       exc' = [exc EXCEPT ![s] = e]
  /\ pc' = [pc EXCEPT ![s] = "except"]
  /\ hist' = [hist EXCEPT ![s].fails = @ + 1]
  /\ UNCHANGED <<cfg, handlers, closed, attempts, current, line, ev, todo>>
  /\ UNCHANGED waitVars

\* resp.iter_lines() raises
ReadFail(s) ==
  /\ pc[s] = "iter"
  /\ MayFail(s)
  /\ exc' = [exc EXCEPT ![s] = "ChunkedEncodingError"]
  /\ pc' = [pc EXCEPT ![s] = "except"]
  /\ hist' = [hist EXCEPT ![s].fails = @ + 1]
  /\ UNCHANGED <<cfg, handlers, closed, attempts, current, line, ev, todo>>
  /\ UNCHANGED waitVars

\* resp.iter_lines() is exhausted: the with block ends, back to the while
EndOfStream(s) ==
  /\ pc[s] = "iter"
  /\ hist[s].connects < MaxConnects
  /\ pc' = [pc EXCEPT ![s] = "loop"]
  /\ UNCHANGED <<cfg, handlers, closed, attempts, current, line, exc, ev, todo, hist>>
  /\ UNCHANGED waitVars

\* resp.iter_lines() yields the line ln
ReadLine(s, ln) ==
  /\ pc[s] = "iter"
  /\ line' = [line EXCEPT ![s] = ln]
  /\ pc' = [pc EXCEPT ![s] = "line"]
  /\ hist' = [hist EXCEPT ![s].late = closed[s], ![s].nlines = @ + 1]
  /\ UNCHANGED <<cfg, handlers, closed, attempts, current, exc, ev, todo>>
  /\ UNCHANGED waitVars

\* CheckClosed without the return
CheckClosed_noReturn(s) ==
  /\ pc[s] = "line"
  /\ pc' = [pc EXCEPT ![s] = "parse"]
  /\ UNCHANGED <<cfg, handlers, closed, attempts, current, line, exc, ev, todo, hist>>
  /\ UNCHANGED waitVars

\* if self._closed: return
CheckClosed(s) ==
  /\ pc[s] = "line"
  /\ IF closed[s]
     THEN /\ pc' = [pc EXCEPT ![s] = "stopped"]
          /\ hist' = [hist EXCEPT ![s].stopBy = "closed"]
     ELSE /\ pc' = [pc EXCEPT ![s] = "parse"]
          /\ hist' = hist
  /\ UNCHANGED <<cfg, handlers, closed, attempts, current, line, exc, ev, todo>>
  /\ UNCHANGED waitVars

\* the rest of the loop body, up to the first listener of an emitted event
ParseLine(s) ==
  /\ pc[s] = "parse"
  /\ LET frames == Handed(current[s], line[s])
         events == IF frames = <<>> THEN <<>> ELSE ProcessRaw(frames[1])
         ls     == IF events = <<>> THEN <<>>
                   ELSE NextListener(handlers[s], events[1].type, "type", 0)
     IN /\ current' = [current EXCEPT ![s] = NextFrame(current[s], line[s])]
        /\ todo' = [todo EXCEPT ![s] = ls]
        /\ ev' = [ev EXCEPT ![s] = IF ls = <<>> THEN <<>> ELSE events]
        /\ pc' = [pc EXCEPT ![s] = IF ls = <<>> THEN "iter" ELSE "emit"]
        /\ hist' = [hist EXCEPT ![s].log = @ \o events,
                                ![s].dirty = FALSE,
                                ![s].handed = @ + Len(frames),
                                ![s].dataSince =
                                  IF line[s] = <<>> THEN 0
                                  ELSE IF Len(line[s]) >= 2 /\ line[s][1] = "data"
                                          /\ line[s][2] = ":" THEN @ + 1
                                  ELSE @,
                                ![s].fieldSince =
                                  IF line[s] = <<>> THEN FALSE
                                  ELSE IF Len(line[s]) >= 2 /\ line[s][1] \in {"id", "event"}
                                          /\ line[s][2] = ":" THEN TRUE
                                  ELSE @]
  /\ line' = [line EXCEPT ![s] = <<>>]
  /\ UNCHANGED <<cfg, handlers, closed, attempts, exc>>
  /\ UNCHANGED waitVars

\* min(self._reconnect_delay * 2 ** (self._reconnect_attempts - 1), self._max_reconnect_delay)
Delay(c, n) == Min(c.reconnect_delay * 2 ^ (n - 1), c.max_reconnect_delay)

\* the failure handler with the sleep and the retry, whatever `reconnect` is
HandleFailure_always(s) ==
  /\ pc[s] = "except"
  /\ exc' = [exc EXCEPT ![s] = ""]
  /\ IF closed[s]
     THEN /\ pc' = [pc EXCEPT ![s] = "stopped"]
          /\ hist' = [hist EXCEPT ![s].stopBy = "closed"]
          /\ UNCHANGED attempts
     ELSE /\ attempts' = [attempts EXCEPT ![s] = @ + 1]
          /\ hist' = [hist EXCEPT ![s].errs = IF cfg[s].on_error THEN @ + 1 ELSE @,
                                  ![s].lastErr = IF cfg[s].on_error THEN exc[s] ELSE @,
                                  ![s].sleeps = @ + 1,
                                  ![s].lastN = hist[s].fails,
                                  ![s].lastD = Delay(cfg[s], attempts[s] + 1)]
          /\ pc' = [pc EXCEPT ![s] = "loop"]
  /\ UNCHANGED <<cfg, handlers, closed, current, line, ev, todo>>
  /\ UNCHANGED waitVars

\* the failure handler giving up after three consecutive failures
HandleFailure_limit(s) ==
  /\ pc[s] = "except"
  /\ exc' = [exc EXCEPT ![s] = ""]
  /\ IF closed[s] \/ ~cfg[s].reconnect \/ attempts[s] >= 3
     THEN /\ pc' = [pc EXCEPT ![s] = "stopped"]
          /\ hist' = [hist EXCEPT ![s].stopBy = IF closed[s] THEN "closed" ELSE "break",
                                  ![s].errs = IF ~closed[s] /\ cfg[s].on_error THEN @ + 1 ELSE @,
                                  ![s].lastErr = IF ~closed[s] /\ cfg[s].on_error THEN exc[s] ELSE @]
          /\ UNCHANGED attempts
     ELSE /\ attempts' = [attempts EXCEPT ![s] = @ + 1]
          /\ hist' = [hist EXCEPT ![s].errs = IF cfg[s].on_error THEN @ + 1 ELSE @,
                                  ![s].lastErr = IF cfg[s].on_error THEN exc[s] ELSE @,
                                  ![s].sleeps = @ + 1,
                                  ![s].lastN = hist[s].fails,
                                  ![s].lastD = Delay(cfg[s], attempts[s] + 1)]
          /\ pc' = [pc EXCEPT ![s] = "loop"]
  /\ UNCHANGED <<cfg, handlers, closed, current, line, ev, todo>>
  /\ UNCHANGED waitVars

\* except Exception as exc: ... time.sleep(delay)
HandleFailure(s) ==
  /\ pc[s] = "except"
  /\ exc' = [exc EXCEPT ![s] = ""]
  /\ IF closed[s]
     THEN /\ pc' = [pc EXCEPT ![s] = "stopped"]
          /\ hist' = [hist EXCEPT ![s].stopBy = "closed"]
          /\ UNCHANGED attempts
     ELSE LET h1 == IF cfg[s].on_error
                    THEN [hist[s] EXCEPT !.errs = @ + 1, !.lastErr = exc[s]]
                    ELSE hist[s]
          IN IF ~cfg[s].reconnect
             THEN /\ pc' = [pc EXCEPT ![s] = "stopped"]
                  /\ hist' = [hist EXCEPT ![s] = [h1 EXCEPT !.stopBy = "break"]]
                  /\ UNCHANGED attempts
             ELSE /\ attempts' = [attempts EXCEPT ![s] = @ + 1]
                  /\ hist' = [hist EXCEPT ![s] =
                                [h1 EXCEPT !.sleeps = @ + 1,
                                           !.lastN = hist[s].fails,
                                           !.lastD = Delay(cfg[s], attempts[s] + 1)]]
                  /\ pc' = [pc EXCEPT ![s] = "loop"]
  /\ UNCHANGED <<cfg, handlers, closed, current, line, ev, todo>>
  /\ UNCHANGED waitVars

\* what _emit invokes after the listener it is invoking
AfterListener(s) == NextListener(handlers[s], ev[s][1].type, todo[s][2], todo[s][3])

\* the state of _run and _emit after the listener under way has returned,
\* or has raised (_emit passes over what a listener raises)
ListenerEnds(s) ==
  /\ todo' = [todo EXCEPT ![s] = AfterListener(s)]
  /\ ev' = [ev EXCEPT ![s] = IF AfterListener(s) = <<>> THEN <<>> ELSE @]
  /\ pc' = [pc EXCEPT ![s] = IF AfterListener(s) = <<>> THEN "iter" ELSE "emit"]

Running(s, listener) == pc[s] = "emit" /\ Head(todo[s]) = listener

\* the record of one invocation: the ordinal of the event, the listener,
\* the list it was taken from, and whether it raised
Invocation(s, raised) ==
  [n |-> Len(hist[s].log), h |-> todo[s][1], list |-> todo[s][2], raised |-> raised]

\* a listener that counts its invocations
Probe(s) ==
  /\ Running(s, "probe")
  /\ hist' = [hist EXCEPT ![s].calls = @ + 1,
                          ![s].trace = Append(@, Invocation(s, FALSE))]
  /\ ListenerEnds(s)
  /\ UNCHANGED <<cfg, handlers, closed, attempts, current, line, exc>>
  /\ UNCHANGED waitVars

(* ---------------------------------------------------------------------- *)
(* MessagesResource.send_and_wait: the listeners                           *)
(* ---------------------------------------------------------------------- *)
\* runs[0]["runId"]
RunId == "r1"

\* event.get("data") or {}
DataOf(e) == PyOr(e.data, EmptyDict)

\* on_space_message
OnSpaceMessage(s) ==
  /\ Running(s, "on_space_message")
  /\ LET d    == DataOf(ev[s][1])
         msg  == IF IsDict(d) THEN PyOr(Get(d, "message"), EmptyDict) ELSE EmptyDict
         role == IF IsDict(msg) THEN GetD(msg, "role", "") ELSE ""
         c    == IF IsDict(msg) THEN Get(msg, "content") ELSE PyNone
     IN text_parts' = IF /\ IsDict(d) /\ IsDict(msg)
                         /\ role \in {"assistant", "agent"}
                         /\ Truthy(c)
                      THEN Append(text_parts, c)
                      ELSE text_parts
  /\ ListenerEnds(s)
  /\ UNCHANGED <<cfg, handlers, closed, attempts, current, line, exc, hist>>
  /\ UNCHANGED <<worker, cpc, settled, done_event, error_holder, lock, tool_calls, outcome, whist>>

\* str(data.get("streamId") or data.get("toolCallId") or "")
CallId(d) == Str(PyOr(PyOr(Get(d, "streamId"), Get(d, "toolCallId")), ""))

\* the position of a call id in tool_calls, 0 when absent
RECURSIVE IndexOf(_, _, _)
IndexOf(calls, id, i) ==
  IF i > Len(calls) THEN 0
  ELSE IF calls[i].id = id THEN i
  ELSE IndexOf(calls, id, i + 1)

\* tool_calls[call_id] = record: a new key goes last, a present key keeps its place
Store(calls, rec) ==
  LET i == IndexOf(calls, rec.id, 1) IN
  IF i = 0 THEN Append(calls, rec) ELSE [calls EXCEPT ![i] = rec]

\* on_tool_started
OnToolStarted(s) ==
  /\ Running(s, "on_tool_started")
  /\ LET d == DataOf(ev[s][1]) IN
     tool_calls' =
       IF IsDict(d) /\ Truthy(CallId(d))
       THEN Store(tool_calls, [id |-> CallId(d), name |-> Str(GetD(d, "toolName", "")),
                               input |-> PyNone, output |-> PyNone])
       ELSE tool_calls
  /\ ListenerEnds(s)
  /\ UNCHANGED <<cfg, handlers, closed, attempts, current, line, exc, hist>>
  /\ UNCHANGED <<worker, cpc, settled, done_event, error_holder, lock, text_parts, outcome, whist>>

\* on_tool_done
OnToolDone(s) ==
  /\ Running(s, "on_tool_done")
  /\ LET d == DataOf(ev[s][1])
         i == IF IsDict(d) THEN IndexOf(tool_calls, CallId(d), 1) ELSE 0
     IN tool_calls' =
          IF i = 0 THEN tool_calls
          ELSE [tool_calls EXCEPT
                  ![i].input = Get(d, "input"),
                  ![i].output = PyOr(Get(d, "result"), Get(d, "output"))]
  /\ ListenerEnds(s)
  /\ UNCHANGED <<cfg, handlers, closed, attempts, current, line, exc, hist>>
  /\ UNCHANGED <<worker, cpc, settled, done_event, error_holder, lock, text_parts, outcome, whist>>

\* the listeners that take the lock `settled` at once
Settlers == {"on_run_completed", "on_run_failed", "on_error_event"}

\* event.get("runId") or (event.get("data") or {}).get("runId")
InactiveRunId(e) ==
  IF Truthy(e.runId) THEN e.runId
  ELSE IF IsDict(DataOf(e)) THEN Get(DataOf(e), "runId")
  ELSE PyNone

\* on_agent_inactive for an event of another run (or one that raises)
OnOtherInactive(s) ==
  /\ Running(s, "on_agent_inactive")
  /\ InactiveRunId(ev[s][1]) # RunId
  /\ ListenerEnds(s)
  /\ UNCHANGED <<cfg, handlers, closed, attempts, current, line, exc, hist>>
  /\ UNCHANGED waitVars

\* the listener at the head of todo is about to execute `with settled:`
AtLock(s) ==
  /\ pc[s] = "emit"
  /\ \/ Head(todo[s]) \in Settlers
     \/ Head(todo[s]) = "on_agent_inactive" /\ InactiveRunId(ev[s][1]) = RunId

\* Enter without the test of the flag
Enter_noCheck(s) ==
  /\ AtLock(s)
  /\ lock = ""
  /\ settled' = TRUE
  /\ lock' = s
  /\ pc' = [pc EXCEPT ![s] =
              IF Head(todo[s]) \in {"on_run_failed", "on_error_event"}
              THEN "h_error" ELSE "h_done"]
  /\ whist' = [whist EXCEPT !.writes = @ + 1,
                            !.won = IF @ = "" THEN s ELSE @,
                            !.first = IF @ = <<>> THEN ev[s] ELSE @]
  /\ UNCHANGED <<todo, ev>>
  /\ UNCHANGED <<cfg, handlers, closed, attempts, current, line, exc, hist>>
  /\ UNCHANGED <<worker, cpc, done_event, error_holder, text_parts, tool_calls, outcome>>

\* with settled: if not _settled[0]: _settled[0] = True
\* (when the flag is set already the block is left at once)
Enter(s) ==
  /\ AtLock(s)
  /\ lock = ""
  /\ IF settled
     THEN /\ ListenerEnds(s)
          /\ whist' = [whist EXCEPT !.lost = @ \cup {s}]
          /\ UNCHANGED <<settled, lock>>
     ELSE /\ settled' = TRUE
          /\ lock' = s
          /\ pc' = [pc EXCEPT ![s] =
                      IF Head(todo[s]) \in {"on_run_failed", "on_error_event"}
                      THEN "h_error" ELSE "h_done"]
          /\ whist' = [whist EXCEPT !.writes = @ + 1, !.won = s, !.first = ev[s]]
          /\ UNCHANGED <<todo, ev>>
  /\ UNCHANGED <<cfg, handlers, closed, attempts, current, line, exc, hist>>
  /\ UNCHANGED <<worker, cpc, done_event, error_holder, text_parts, tool_calls, outcome>>

\* ErrorMessage reading the key "error" for both listeners
ErrorMessage_sameKey(listener, d) == Str(GetD(d, "error", "Stream error"))

\* the message on_run_failed and on_error_event record
ErrorMessage(listener, d) ==
  IF listener = "on_run_failed" THEN Str(GetD(d, "errorMessage", "Run failed"))
  ELSE Str(GetD(d, "error", "Stream error"))

\* SetError recording the default message whatever the event carries
SetError_generic(s) ==
  /\ pc[s] = "h_error"
  /\ LET d == DataOf(ev[s][1]) IN
     IF IsDict(d)
     THEN /\ error_holder' = <<ErrorMessage(Head(todo[s]), EmptyDict)>>
          /\ pc' = [pc EXCEPT ![s] = "h_done"]
          /\ UNCHANGED <<lock, todo, ev>>
     ELSE /\ lock' = ""
          /\ ListenerEnds(s)
          /\ UNCHANGED error_holder
  /\ UNCHANGED <<cfg, handlers, closed, attempts, current, line, exc, hist>>
  /\ UNCHANGED <<worker, cpc, settled, done_event, text_parts, tool_calls, outcome, whist>>

\* error_holder["error"] = str(...); an event whose data is no dict raises
\* here, which leaves the with block
SetError(s) ==
  /\ pc[s] = "h_error"
  /\ LET d == DataOf(ev[s][1]) IN
     IF IsDict(d)
     THEN /\ error_holder' = <<ErrorMessage(Head(todo[s]), d)>>
          /\ pc' = [pc EXCEPT ![s] = "h_done"]
          /\ UNCHANGED <<lock, todo, ev>>
     ELSE /\ lock' = ""
          /\ ListenerEnds(s)
          /\ UNCHANGED error_holder
  /\ UNCHANGED <<cfg, handlers, closed, attempts, current, line, exc, hist>>
  /\ UNCHANGED <<worker, cpc, settled, done_event, text_parts, tool_calls, outcome, whist>>

\* done_event.set(), and the end of the with block
SetDone(s) ==
  /\ pc[s] = "h_done"
  /\ done_event' = TRUE
  /\ lock' = ""
  /\ ListenerEnds(s)
  /\ UNCHANGED <<cfg, handlers, closed, attempts, current, line, exc, hist>>
  /\ UNCHANGED <<worker, cpc, settled, error_holder, text_parts, tool_calls, outcome, whist>>

(* ---------------------------------------------------------------------- *)
(* MessagesResource.send_and_wait: the caller                              *)
(* ---------------------------------------------------------------------- *)
\* "\n".join(text_parts)
RECURSIVE JoinText(_)
JoinText(parts) ==
  IF parts = <<>> THEN ""
  ELSE IF Len(parts) = 1 THEN parts[1]
  ELSE parts[1] \o "\n" \o JoinText(Tail(parts))

Returned(text, calls, run) ==
  [kind |-> "return", text |-> text, tool_calls |-> calls, run |-> run, message |-> ""]

Raised(kind, message) ==
  [kind |-> kind, text |-> "", tool_calls |-> <<>>, run |-> PyNone, message |-> message]

\* the listeners send_and_wait registers, by stream
Registered(s) ==
  IF s = "space"
  THEN On(On(On(<<>>, "space.message", "on_space_message"),
             "agent.inactive", "on_agent_inactive"),
          "error", "on_error_event")
  ELSE On(On(On(On(On(<<>>, "tool.started", "on_tool_started"),
                   "tool.done", "on_tool_done"),
                "run.completed", "on_run_completed"),
             "run.failed", "on_run_failed"),
          "error", "on_error_event")

\* WaitStream with reconnection enabled
WaitStream_reconnect == NewStream(TRUE, DefaultDelay, DefaultMaxDelay, FALSE, FALSE, FALSE)

\* the two streams as send_and_wait constructs them
WaitStream == NewStream(FALSE, DefaultDelay, DefaultMaxDelay, FALSE, FALSE, FALSE)

\* self.send(...), then either the early return or the construction of the
\* state, the streams and the listeners
Send ==
  /\ cpc = "send"
  /\ \E runs \in {<<>>, <<RunId>>} :
       IF runs = <<>>
       THEN /\ outcome' = <<Returned("", <<>>, PyNone)>>
            /\ cpc' = "returned"
            /\ UNCHANGED <<cfg, handlers, pc>>
       ELSE /\ cfg' = [s \in Streams |-> IF s \in WaitStreams THEN WaitStream ELSE cfg[s]]
            /\ handlers' = [s \in Streams |->
                              IF s \in WaitStreams THEN Registered(s) ELSE handlers[s]]
            /\ pc' = [s \in Streams |-> IF s \in WaitStreams THEN "init" ELSE pc[s]]
            /\ cpc' = "start_space"
            /\ UNCHANGED outcome
  /\ UNCHANGED <<closed, attempts, current, line, exc, ev, todo, hist>>
  /\ UNCHANGED <<worker, settled, done_event, error_holder, lock, text_parts, tool_calls, whist>>

\* space_stream.start()
StartSpace ==
  /\ cpc = "start_space"
  /\ Start("space")
  /\ cpc' = "start_run"
  /\ UNCHANGED <<cfg, handlers, closed, attempts, current, line, exc, ev, todo, hist>>
  /\ UNCHANGED <<worker, settled, done_event, error_holder, lock, text_parts, tool_calls,
                 outcome, whist>>

\* run_stream.start()
StartRun ==
  /\ cpc = "start_run"
  /\ Start("run")
  /\ cpc' = "wait"
  /\ UNCHANGED <<cfg, handlers, closed, attempts, current, line, exc, ev, todo, hist>>
  /\ UNCHANGED <<worker, settled, done_event, error_holder, lock, text_parts, tool_calls,
                 outcome, whist>>

\* done_event.wait(timeout=timeout) returns True
WaitDone ==
  /\ cpc = "wait"
  /\ done_event
  /\ cpc' = "check"
  /\ UNCHANGED streamVars
  /\ UNCHANGED <<worker, settled, done_event, error_holder, lock, text_parts, tool_calls,
                 outcome, whist>>

\* WaitTimeout going on as if the wait had returned True
WaitTimeout_ignored ==
  /\ cpc = "wait"
  /\ ~done_event
  /\ whist' = [whist EXCEPT !.timedOut = TRUE]
  /\ cpc' = "check"
  /\ UNCHANGED streamVars
  /\ UNCHANGED <<worker, settled, done_event, error_holder, lock, text_parts, tool_calls, outcome>>

\* done_event.wait(timeout=timeout) returns False: raise TimeoutError
WaitTimeout ==
  /\ cpc = "wait"
  /\ ~done_event
  /\ outcome' = <<Raised("TimeoutError", "send_and_wait timed out")>>
  /\ whist' = [whist EXCEPT !.timedOut = TRUE]
  /\ cpc' = "close_space"
  /\ UNCHANGED streamVars
  /\ UNCHANGED <<worker, settled, done_event, error_holder, lock, text_parts, tool_calls>>

\* the events of a stream the listeners of which have all returned
Delivered(s) ==
  IF ev[s] = <<>> THEN hist[s].log ELSE SubSeq(hist[s].log, 1, Len(hist[s].log) - 1)

\* if "error" in error_holder: raise RuntimeError(...)  else: return {...}
CheckResult ==
  /\ cpc = "check"
  /\ outcome' = IF error_holder # <<>>
                THEN <<Raised("RuntimeError", error_holder[1])>>
                ELSE <<Returned(JoinText(text_parts), tool_calls, RunId)>>
  /\ whist' = [whist EXCEPT !.seen = [s \in WaitStreams |-> Delivered(s)]]
  /\ cpc' = "close_space"
  /\ UNCHANGED streamVars
  /\ UNCHANGED <<worker, settled, done_event, error_holder, lock, text_parts, tool_calls>>

\* finally: space_stream.close()
CloseSpace ==
  /\ cpc = "close_space"
  /\ Close("space")
  /\ cpc' = "close_run"
  /\ UNCHANGED <<cfg, handlers, attempts, pc, current, line, exc, ev, todo>>
  /\ UNCHANGED <<worker, settled, done_event, error_holder, lock, text_parts, tool_calls,
                 outcome, whist>>

\* CloseRun without the close
CloseRun_forgotten ==
  /\ cpc = "close_run"
  /\ cpc' = "returned"
  /\ UNCHANGED streamVars
  /\ UNCHANGED <<worker, settled, done_event, error_holder, lock, text_parts, tool_calls,
                 outcome, whist>>

\* run_stream.close(), and the return or the raise reaches the caller
CloseRun ==
  /\ cpc = "close_run"
  /\ Close("run")
  /\ cpc' = "returned"
  /\ UNCHANGED <<cfg, handlers, attempts, pc, current, line, exc, ev, todo>>
  /\ UNCHANGED <<worker, settled, done_event, error_holder, lock, text_parts, tool_calls,
                 outcome, whist>>

\* the documents the gateway sends on the two streams of a wait
WaitDocs(s) ==
  IF s = "space" THEN {"{msg}", "{inactive}", "{inactive2}", "{error}"}
  ELSE {"{started1}", "{done1}", "{completed}", "{failed}", "{error}"}

\* the gateway frames every document as one data line and a blank line
Framed(s, docs) ==
  IF current[s].data = <<>> THEN { <<"data", ":", " ", d>> : d \in docs }
  ELSE { <<>> }

WaitReadLine(s) ==
  /\ hist["space"].nlines + hist["run"].nlines < MaxLines
  /\ \E ln \in Framed(s, WaitDocs(s)) : ReadLine(s, ln)

\* the transport faults of the two streams so far
Faults(s) == hist[s].fails + (IF hist[s].connects > 1 THEN hist[s].connects - 1 ELSE 0)

WaitMayFault == Faults("space") + Faults("run") < MaxFaults

WaitConnectFail(s) == WaitMayFault /\ ConnectFail(s)

WaitReadFail(s) == WaitMayFault /\ ReadFail(s)

WaitEndOfStream(s) == WaitMayFault /\ EndOfStream(s)

InitWait ==
  /\ cfg = [s \in Streams |-> NoStream]
  /\ handlers = [s \in Streams |-> <<>>]
  /\ closed = [s \in Streams |-> FALSE]
  /\ attempts = [s \in Streams |-> 0]
  /\ pc = [s \in Streams |-> "none"]
  /\ current = [s \in Streams |-> EmptyFrame]
  /\ line = [s \in Streams |-> <<>>]
  /\ exc = [s \in Streams |-> ""]
  /\ ev = [s \in Streams |-> <<>>]
  /\ todo = [s \in Streams |-> <<>>]
  /\ hist = [s \in Streams |-> NoHist]
  /\ cpc = "send"
  /\ settled = FALSE
  /\ done_event = FALSE
  /\ error_holder = <<>>
  /\ lock = ""
  /\ text_parts = <<>>
  /\ tool_calls = <<>>
  /\ outcome = <<>>
  /\ whist = NoWHist
  /\ worker = NoWorker

\* the steps of the thread of one of the two streams
WaitThread(s) ==
  \/ LoopCheck(s)
  \/ ConnectOk(s)
  \/ WaitConnectFail(s)
  \/ WaitReadLine(s)
  \/ WaitReadFail(s)
  \/ WaitEndOfStream(s)
  \/ CheckClosed(s)
  \/ ParseLine(s)
  \/ HandleFailure(s)
  \/ OnSpaceMessage(s)
  \/ OnToolStarted(s)
  \/ OnToolDone(s)
  \/ OnOtherInactive(s)
  \/ Enter(s)
  \/ SetError(s)
  \/ SetDone(s)

NextWait ==
  \/ Send
  \/ StartSpace
  \/ StartRun
  \/ WaitDone
  \/ WaitTimeout
  \/ CheckResult
  \/ CloseSpace
  \/ CloseRun
  \/ \E s \in WaitStreams : WaitThread(s)

SpecWait == InitWait /\ [][NextWait]_vars

(* ---------------------------------------------------------------------- *)
(* A wait over a network without transport faults, with longer streams     *)
(* ---------------------------------------------------------------------- *)
ResultDocs(s) ==
  IF s = "space" THEN {"{msg}", "{msg2}", "{inactive}", "{inactive2}"}
  ELSE {"{started1}", "{started1b}", "{started2}", "{done1}", "{done1f}", "{completed}",
        "{failed0}"}

ResultReadLine(s) ==
  /\ hist["space"].nlines + hist["run"].nlines < MaxResultLines
  /\ \E ln \in Framed(s, ResultDocs(s)) : ReadLine(s, ln)

ResultThread(s) ==
  \/ LoopCheck(s)
  \/ ConnectOk(s)
  \/ ResultReadLine(s)
  \/ CheckClosed(s)
  \/ ParseLine(s)
  \/ OnSpaceMessage(s)
  \/ OnToolStarted(s)
  \/ OnToolDone(s)
  \/ OnOtherInactive(s)
  \/ Enter(s)
  \/ SetError(s)
  \/ SetDone(s)

NextResult ==
  \/ Send
  \/ StartSpace
  \/ StartRun
  \/ WaitDone
  \/ WaitTimeout
  \/ CheckResult
  \/ CloseSpace
  \/ CloseRun
  \/ \E s \in WaitStreams : ResultThread(s)

SpecResult == InitWait /\ [][NextResult]_vars

(* ---------------------------------------------------------------------- *)
(* A wait whose streams carry settling events only                         *)
(* ---------------------------------------------------------------------- *)
SettleDocs(s) ==
  IF s = "space" THEN {"{inactive}", "{error}", "{error2}", "{error3}"}
  ELSE {"{completed}", "{failed}", "{failed3}", "{error2}"}

SettleReadLine(s) ==
  /\ hist["space"].nlines + hist["run"].nlines < MaxSettleLines
  /\ \E ln \in Framed(s, SettleDocs(s)) : ReadLine(s, ln)

SettleThread(s) ==
  \/ LoopCheck(s)
  \/ ConnectOk(s)
  \/ SettleReadLine(s)
  \/ CheckClosed(s)
  \/ ParseLine(s)
  \/ Enter(s)
  \/ SetError(s)
  \/ SetDone(s)

NextSettle ==
  \/ Send
  \/ StartSpace
  \/ StartRun
  \/ WaitDone
  \/ WaitTimeout
  \/ CheckResult
  \/ CloseSpace
  \/ CloseRun
  \/ \E s \in WaitStreams : SettleThread(s)

SpecSettle == InitWait /\ [][NextSettle]_vars

(* ---------------------------------------------------------------------- *)
(* A free-standing stream, driven by its owner                             *)
(* ---------------------------------------------------------------------- *)
StreamLines ==
  { <<>>,
    <<":", "keepalive">>,
    <<"data", ":", " ", "{ping}">> }

InitStream ==
  /\ cfg \in { [s \in Streams |-> IF s = "stream" THEN c ELSE NoStream] :
                 c \in { NewStream(r, d, DefaultMaxDelay, TRUE, oe, oc) :
                           r \in BOOLEAN, d \in {DefaultDelay, ToolWorkerDelay},
                           oe \in BOOLEAN, oc \in BOOLEAN } }
  /\ handlers = [s \in Streams |-> IF s = "stream" THEN On(<<>>, "ping", "probe") ELSE <<>>]
  /\ closed = [s \in Streams |-> FALSE]
  /\ attempts = [s \in Streams |-> 0]
  /\ pc = [s \in Streams |-> IF s = "stream" THEN "init" ELSE "none"]
  /\ current = [s \in Streams |-> EmptyFrame]
  /\ line = [s \in Streams |-> <<>>]
  /\ exc = [s \in Streams |-> ""]
  /\ ev = [s \in Streams |-> <<>>]
  /\ todo = [s \in Streams |-> <<>>]
  /\ hist = [s \in Streams |-> NoHist]
  /\ cpc = "none"
  /\ settled = FALSE
  /\ done_event = FALSE
  /\ error_holder = <<>>
  /\ lock = ""
  /\ text_parts = <<>>
  /\ tool_calls = <<>>
  /\ outcome = <<>>
  /\ whist = NoWHist
  /\ worker = NoWorker

StartStream ==
  /\ Start("stream")
  /\ UNCHANGED <<cfg, handlers, closed, attempts, current, line, exc, ev, todo, hist>>
  /\ UNCHANGED waitVars

CloseStream ==
  /\ hist["stream"].closeCalls < MaxCloseCalls
  /\ Close("stream")
  /\ UNCHANGED <<cfg, handlers, attempts, pc, current, line, exc, ev, todo>>
  /\ UNCHANGED waitVars

StreamReadLine ==
  /\ hist["stream"].nlines < MaxStreamLines
  /\ \E ln \in StreamLines : ReadLine("stream", ln)

\* the steps of the stream's thread
StreamThread ==
  \/ LoopCheck("stream")
  \/ ConnectOk("stream")
  \/ ConnectFail("stream")
  \/ StreamReadLine
  \/ ReadFail("stream")
  \/ EndOfStream("stream")
  \/ CheckClosed("stream")
  \/ ParseLine("stream")
  \/ Probe("stream")
  \/ HandleFailure("stream")

NextStream == StartStream \/ CloseStream \/ StreamThread

SpecStream == InitStream /\ [][NextStream]_vars

\* the steps the stream's thread takes by itself: the scheduler runs the
\* thread, and time.sleep returns
StreamOwnSteps ==
  \/ LoopCheck("stream")
  \/ CheckClosed("stream")
  \/ ParseLine("stream")
  \/ Probe("stream")
  \/ HandleFailure("stream")

\* the stream as tools.listen constructs it: reconnect=True,
\* reconnect_delay=2.0, on_open and on_error given
InitStreamLive ==
  /\ InitStream
  /\ cfg["stream"] = NewStream(TRUE, ToolWorkerDelay, DefaultMaxDelay, TRUE, TRUE, FALSE)

SpecStreamLive == InitStreamLive /\ [][NextStream]_vars /\ WF_vars(StreamOwnSteps)

(* ---------------------------------------------------------------------- *)
(* A stream that is sent lines of every kind                               *)
(* ---------------------------------------------------------------------- *)
\* a blank line, data lines with a document, with a document without type,
\* with no value, with a truncated document; id and event lines; a line
\* without colon
FrameLines ==
  { <<>>,
    <<"data", ":", " ", "{ping}">>,
    <<"data", ":", " ", "{ok}">>,
    <<"data", ":">>,
    <<"data", ":", " ", "{oops">>,
    <<"id", ":", " ", "9">>,
    <<"event", ":", " ", "custom">>,
    <<"data">> }

FramesReadLine ==
  /\ hist["stream"].nlines < MaxFrameLines
  /\ \E ln \in FrameLines : ReadLine("stream", ln)

\* a stream with one listener, registered for every event
InitFrames ==
  /\ cfg = [s \in Streams |->
             IF s = "stream"
             THEN NewStream(TRUE, DefaultDelay, DefaultMaxDelay, TRUE, TRUE, FALSE)
             ELSE NoStream]
  /\ handlers = [s \in Streams |-> IF s = "stream" THEN On(<<>>, "*", "probe") ELSE <<>>]
  /\ closed = [s \in Streams |-> FALSE]
  /\ attempts = [s \in Streams |-> 0]
  /\ pc = [s \in Streams |-> IF s = "stream" THEN "init" ELSE "none"]
  /\ current = [s \in Streams |-> EmptyFrame]
  /\ line = [s \in Streams |-> <<>>]
  /\ exc = [s \in Streams |-> ""]
  /\ ev = [s \in Streams |-> <<>>]
  /\ todo = [s \in Streams |-> <<>>]
  /\ hist = [s \in Streams |-> NoHist]
  /\ cpc = "none"
  /\ settled = FALSE
  /\ done_event = FALSE
  /\ error_holder = <<>>
  /\ lock = ""
  /\ text_parts = <<>>
  /\ tool_calls = <<>>
  /\ outcome = <<>>
  /\ whist = NoWHist
  /\ worker = NoWorker

NextFrames ==
  \/ StartStream
  \/ LoopCheck("stream")
  \/ ConnectOk("stream")
  \/ FramesReadLine
  \/ CheckClosed("stream")
  \/ ParseLine("stream")
  \/ Probe("stream")

SpecFrames == InitFrames /\ [][NextFrames]_vars

(* ---------------------------------------------------------------------- *)
(* A stream that is sent field lines with zero, one and two spaces after   *)
(* the colon, and documents with a data field                              *)
(* ---------------------------------------------------------------------- *)
FieldLines ==
  { <<>>,
    <<"data", ":", "{ping}">>,
    <<"data", ":", " ", "{count}">>,
    <<"data", ":", " ", "{count0}">>,
    <<"data", ":", " ", "{count.e}">>,
    <<"data", ":", " ", " ", "{ping}">>,
    <<"id", ":", " ", "9">>,
    <<"id", ":", " ", " ", "9">>,
    <<"event", ":", " ", " ", "custom">> }

FieldsReadLine ==
  /\ hist["stream"].nlines < MaxFieldLines
  /\ \E ln \in FieldLines : ReadLine("stream", ln)

NextFields ==
  \/ StartStream
  \/ LoopCheck("stream")
  \/ ConnectOk("stream")
  \/ FieldsReadLine
  \/ CheckClosed("stream")
  \/ ParseLine("stream")
  \/ Probe("stream")

SpecFields == InitFrames /\ [][NextFields]_vars

(* ---------------------------------------------------------------------- *)
(* A stream whose owner registers and removes listeners while it runs      *)
(* ---------------------------------------------------------------------- *)
\* the listeners the owner has: one that returns, one that raises
OwnListeners == {"probe", "raiser"}

\* the event types the owner registers them for
OwnTypes == {"a", "*"}

\* Swallow without the try: the exception leaves _emit and _process_raw
\* and reaches the except clause of _run
Swallow_propagates(s) ==
  /\ todo' = [todo EXCEPT ![s] = <<>>]
  /\ ev' = [ev EXCEPT ![s] = <<>>]
  /\ pc' = [pc EXCEPT ![s] = "except"]

\* the except clause of _emit: the exception of a listener ends there
Swallow(s) == ListenerEnds(s)

\* a listener that raises
Raiser(s) ==
  /\ Running(s, "raiser")
  /\ hist' = [hist EXCEPT ![s].trace = Append(@, Invocation(s, TRUE))]
  /\ Swallow(s)
  /\ UNCHANGED <<cfg, handlers, closed, attempts, current, line, exc>>
  /\ UNCHANGED waitVars

\* the owner calls stream.on(event_type, handler)
RegOn(s) ==
  /\ pc[s] # "none"
  /\ hist[s].regs < MaxRegs
  /\ \E t \in OwnTypes, h \in OwnListeners :
       handlers' = [handlers EXCEPT ![s] = On(@, t, h)]
  /\ hist' = [hist EXCEPT ![s].regs = @ + 1, ![s].dirty = @ \/ pc[s] = "emit"]
  /\ UNCHANGED <<cfg, closed, attempts, pc, current, line, exc, ev, todo>>
  /\ UNCHANGED waitVars

\* the owner calls stream.off(event_type, handler)
RegOff(s) ==
  /\ pc[s] # "none"
  /\ hist[s].regs < MaxRegs
  /\ \E t \in OwnTypes, h \in OwnListeners :
       handlers' = [handlers EXCEPT ![s] = Off(@, t, h)]
  /\ hist' = [hist EXCEPT ![s].regs = @ + 1, ![s].dirty = @ \/ pc[s] = "emit"]
  /\ UNCHANGED <<cfg, closed, attempts, pc, current, line, exc, ev, todo>>
  /\ UNCHANGED waitVars

\* the n-th line of the feed is blank or carries the event numbered n
DispatchLines(s) ==
  { <<>> } \cup { <<"data", ":", " ", EventDoc(t, hist[s].nlines + 1)>> : t \in EventTypes }

DispatchReadLine ==
  /\ hist["stream"].nlines < MaxDispatchLines
  /\ \E ln \in DispatchLines("stream") : ReadLine("stream", ln)

InitDispatch ==
  /\ cfg = [s \in Streams |->
             IF s = "stream"
             THEN NewStream(TRUE, DefaultDelay, DefaultMaxDelay, TRUE, TRUE, FALSE)
             ELSE NoStream]
  /\ handlers = [s \in Streams |-> <<>>]
  /\ closed = [s \in Streams |-> FALSE]
  /\ attempts = [s \in Streams |-> 0]
  /\ pc = [s \in Streams |-> IF s = "stream" THEN "init" ELSE "none"]
  /\ current = [s \in Streams |-> EmptyFrame]
  /\ line = [s \in Streams |-> <<>>]
  /\ exc = [s \in Streams |-> ""]
  /\ ev = [s \in Streams |-> <<>>]
  /\ todo = [s \in Streams |-> <<>>]
  /\ hist = [s \in Streams |-> NoHist]
  /\ cpc = "none"
  /\ settled = FALSE
  /\ done_event = FALSE
  /\ error_holder = <<>>
  /\ lock = ""
  /\ text_parts = <<>>
  /\ tool_calls = <<>>
  /\ outcome = <<>>
  /\ whist = NoWHist
  /\ worker = NoWorker

NextDispatch ==
  \/ StartStream
  \/ RegOn("stream")
  \/ RegOff("stream")
  \/ LoopCheck("stream")
  \/ ConnectOk("stream")
  \/ DispatchReadLine
  \/ CheckClosed("stream")
  \/ ParseLine("stream")
  \/ Probe("stream")
  \/ Raiser("stream")

SpecDispatch == InitDispatch /\ [][NextDispatch]_vars

(* ---------------------------------------------------------------------- *)
(* A stream whose feed has events of the type "*"                          *)
(* ---------------------------------------------------------------------- *)
WildLines ==
  { <<>>,
    <<"data", ":", " ", "{star}">>,
    <<"data", ":", " ", EventDoc("a", 1)>> }

WildReadLine ==
  /\ hist["stream"].nlines < MaxWildLines
  /\ \E ln \in WildLines : ReadLine("stream", ln)

NextWild ==
  \/ StartStream
  \/ RegOn("stream")
  \/ RegOff("stream")
  \/ LoopCheck("stream")
  \/ ConnectOk("stream")
  \/ WildReadLine
  \/ CheckClosed("stream")
  \/ ParseLine("stream")
  \/ Probe("stream")
  \/ Raiser("stream")

SpecWild == InitDispatch /\ [][NextWild]_vars

(* ---------------------------------------------------------------------- *)
(* ToolsResource.listen                                                    *)
(* ---------------------------------------------------------------------- *)
\* the handlers of the model: one returns a value, one raises Exception(m),
\* one never returns
HandlerKinds == {"returns", "raises", "blocks"}

\* what the handler that returns returns, what the handler that raises says
HandlerResult == "{ok}"
HandlerMessage == "oops"

\* str(exc) of the HsafaApiError of a failed POST
PostMessage == "HTTP 500"

\* HandlerOf giving an unknown tool the handler of "fetch"
HandlerOf_fallback(tools, tool_name) ==
  IF tool_name \in DOMAIN tools THEN <<tools[tool_name]>>
  ELSE IF "fetch" \in DOMAIN tools THEN <<tools["fetch"]>>
  ELSE <<>>

\* handlers.get(tool_name): none or one
HandlerOf(tools, tool_name) ==
  IF tool_name \in DOMAIN tools THEN <<tools[tool_name]>> ELSE <<>>

\* the stream tools.listen constructs
ToolStream == NewStream(TRUE, ToolWorkerDelay, DefaultMaxDelay, TRUE, TRUE, FALSE)

\* Listen checking the key after the stream is built and started
Listen_lateCheck ==
  /\ worker.listen = ""
  /\ cfg' = [cfg EXCEPT !["stream"] = ToolStream]
  /\ handlers' = [handlers EXCEPT !["stream"] = On(<<>>, "tool.call", "handle_tool_call")]
  /\ pc' = [pc EXCEPT !["stream"] = "loop"]
  /\ worker' = [worker EXCEPT !.listen =
                   IF Truthy(worker.secret_key) THEN "returned" ELSE "ValueError"]
  /\ UNCHANGED <<closed, attempts, current, line, exc, ev, todo, hist>>
  /\ UNCHANGED <<cpc, settled, done_event, error_holder, lock, text_parts, tool_calls,
                 outcome, whist>>

\* tools.listen(handlers): the check of the key, then the construction of
\* the stream, stream.on("tool.call", handle_tool_call) and stream.start()
Listen ==
  /\ worker.listen = ""
  /\ IF ~Truthy(worker.secret_key)
     THEN /\ worker' = [worker EXCEPT !.listen = "ValueError"]
          /\ UNCHANGED <<cfg, handlers, pc>>
     ELSE /\ cfg' = [cfg EXCEPT !["stream"] = ToolStream]
          /\ handlers' = [handlers EXCEPT
                            !["stream"] = On(<<>>, "tool.call", "handle_tool_call")]
          /\ pc' = [pc EXCEPT !["stream"] = "loop"]
          /\ worker' = [worker EXCEPT !.listen = "returned"]
  /\ UNCHANGED <<closed, attempts, current, line, exc, ev, todo, hist>>
  /\ UNCHANGED <<cpc, settled, done_event, error_holder, lock, text_parts, tool_calls,
                 outcome, whist>>

\* the thread handle_tool_call starts for a call
NewThread(d, handler) ==
  [ call    |-> GetD(d, "toolCallId", ""),
    name    |-> GetD(d, "toolName", ""),
    args    |-> PyOr(Get(d, "args"), EmptyDict),
    run     |-> GetD(d, "runId", ""),
    handler |-> handler,
    pc      |-> "run",
    result  |-> PyNone,
    error   |-> "" ]

\* HandleToolCall running the handler before it returns
HandleToolCall_inline(s) ==
  /\ Running(s, "handle_tool_call")
  /\ LET d == DataOf(ev[s][1]) IN
     IF ~IsDict(d)
     THEN /\ hist' = [hist EXCEPT ![s].trace = Append(@, Invocation(s, TRUE))]
          /\ Swallow(s)
          /\ UNCHANGED worker
     ELSE LET h == HandlerOf(worker.tools, GetD(d, "toolName", "")) IN
          /\ hist' = [hist EXCEPT ![s].trace = Append(@, Invocation(s, FALSE))]
          /\ IF h = <<>>
             THEN ListenerEnds(s) /\ UNCHANGED worker
             ELSE /\ worker' = [worker EXCEPT !.threads = Append(@, NewThread(d, h[1]))]
                  /\ pc' = [pc EXCEPT ![s] = "h_call"]
                  /\ UNCHANGED <<todo, ev>>
  /\ UNCHANGED <<cfg, handlers, closed, attempts, current, line, exc>>
  /\ UNCHANGED <<cpc, settled, done_event, error_holder, lock, text_parts, tool_calls,
                 outcome, whist>>

\* handle_tool_call: an event whose data is no dict makes it raise; a tool
\* without handler makes it return; otherwise it starts the thread of
\* run_handler and returns
HandleToolCall(s) ==
  /\ Running(s, "handle_tool_call")
  /\ LET d == DataOf(ev[s][1]) IN
     IF ~IsDict(d)
     THEN /\ hist' = [hist EXCEPT ![s].trace = Append(@, Invocation(s, TRUE))]
          /\ Swallow(s)
          /\ UNCHANGED worker
     ELSE LET h == HandlerOf(worker.tools, GetD(d, "toolName", "")) IN
          /\ hist' = [hist EXCEPT ![s].trace = Append(@, Invocation(s, FALSE))]
          /\ ListenerEnds(s)
          /\ worker' = IF h = <<>> THEN worker
                       ELSE [worker EXCEPT !.threads = Append(@, NewThread(d, h[1]))]
  /\ UNCHANGED <<cfg, handlers, closed, attempts, current, line, exc>>
  /\ UNCHANGED <<cpc, settled, done_event, error_holder, lock, text_parts, tool_calls,
                 outcome, whist>>

\* result = handler(args): the handler returns or raises (the handler that
\* blocks does neither)
RunHandler(i) ==
  /\ worker.threads[i].pc = "run"
  /\ worker.threads[i].handler \in {"returns", "raises"}
  /\ worker' = [worker EXCEPT !.threads[i] =
                   IF @.handler = "returns"
                   THEN [@ EXCEPT !.pc = "submit", !.result = HandlerResult]
                   ELSE [@ EXCEPT !.pc = "submit_error", !.error = HandlerMessage]]
  /\ UNCHANGED streamVars
  /\ UNCHANGED <<cpc, settled, done_event, error_holder, lock, text_parts, tool_calls,
                 outcome, whist>>

\* the record of a submit_result call
Post(t, result, ok) == [run |-> t.run, call |-> t.call, result |-> result, ok |-> ok]

\* self.submit_result(run_id, tool_call_id, result): the POST succeeds, or
\* it raises and the except clause of run_handler takes over
SubmitResult(i) ==
  /\ worker.threads[i].pc = "submit"
  /\ \E ok \in BOOLEAN :
       worker' = [worker EXCEPT
                    !.posts = Append(@, Post(worker.threads[i],
                                             <<"value", worker.threads[i].result>>, ok)),
                    !.threads[i] = IF ok THEN [@ EXCEPT !.pc = "done"]
                                   ELSE [@ EXCEPT !.pc = "submit_error",
                                                  !.error = PostMessage]]
  /\ UNCHANGED streamVars
  /\ UNCHANGED <<cpc, settled, done_event, error_holder, lock, text_parts, tool_calls,
                 outcome, whist>>

\* SubmitError without the inner try: a failed POST ends the thread with
\* the exception
SubmitError_unguarded(i) ==
  /\ worker.threads[i].pc = "submit_error"
  /\ \E ok \in BOOLEAN :
       worker' = [worker EXCEPT
                    !.posts = Append(@, Post(worker.threads[i],
                                             <<"error", worker.threads[i].error>>, ok)),
                    !.threads[i].pc = IF ok THEN "done" ELSE "crashed"]
  /\ UNCHANGED streamVars
  /\ UNCHANGED <<cpc, settled, done_event, error_holder, lock, text_parts, tool_calls,
                 outcome, whist>>

\* except Exception as exc: self.submit_result(run_id, tool_call_id,
\* {"error": str(exc)}), whose failure is passed over
SubmitError(i) ==
  /\ worker.threads[i].pc = "submit_error"
  /\ \E ok \in BOOLEAN :
       worker' = [worker EXCEPT
                    !.posts = Append(@, Post(worker.threads[i],
                                             <<"error", worker.threads[i].error>>, ok)),
                    !.threads[i].pc = "done"]
  /\ UNCHANGED streamVars
  /\ UNCHANGED <<cpc, settled, done_event, error_holder, lock, text_parts, tool_calls,
                 outcome, whist>>

\* the tool calls the gateway sends
ToolDocs == {"{call1}", "{call2}", "{call3}", "{call4}"}

ToolsReadLine ==
  /\ hist["stream"].nlines < MaxToolLines
  /\ \E ln \in Framed("stream", ToolDocs) : ReadLine("stream", ln)

\* the handlers argument of listen: "fetch" has a handler, "mail" may have
\* one, "other" has none
ToolSets ==
  { ("fetch" :> k) : k \in HandlerKinds }
  \cup { ("fetch" :> k @@ "mail" :> m) : k \in HandlerKinds, m \in HandlerKinds }

\* a client with or without a secret key, and a call of listen to come
InitTools ==
  /\ cfg = [s \in Streams |-> NoStream]
  /\ handlers = [s \in Streams |-> <<>>]
  /\ closed = [s \in Streams |-> FALSE]
  /\ attempts = [s \in Streams |-> 0]
  /\ pc = [s \in Streams |-> "none"]
  /\ current = [s \in Streams |-> EmptyFrame]
  /\ line = [s \in Streams |-> <<>>]
  /\ exc = [s \in Streams |-> ""]
  /\ ev = [s \in Streams |-> <<>>]
  /\ todo = [s \in Streams |-> <<>>]
  /\ hist = [s \in Streams |-> NoHist]
  /\ cpc = "none"
  /\ settled = FALSE
  /\ done_event = FALSE
  /\ error_holder = <<>>
  /\ lock = ""
  /\ text_parts = <<>>
  /\ tool_calls = <<>>
  /\ outcome = <<>>
  /\ whist = NoWHist
  /\ \E key \in {PyNone, "", "sk"}, tools \in ToolSets :
       worker = [NoWorker EXCEPT !.secret_key = key, !.tools = tools]

\* the steps of the thread of the stream
ToolStreamSteps ==
  \/ LoopCheck("stream")
  \/ ConnectOk("stream")
  \/ ToolsReadLine
  \/ CheckClosed("stream")
  \/ ParseLine("stream")
  \/ HandleToolCall("stream")

\* the steps of the threads of run_handler
HandlerSteps ==
  \E i \in 1..Len(worker.threads) :
    \/ RunHandler(i)
    \/ SubmitResult(i)
    \/ SubmitError(i)

NextTools == Listen \/ ToolStreamSteps \/ HandlerSteps

SpecTools == InitTools /\ [][NextTools]_vars

\* the steps the thread of the stream takes by itself
ToolStreamOwnSteps ==
  \/ LoopCheck("stream")
  \/ CheckClosed("stream")
  \/ ParseLine("stream")
  \/ HandleToolCall("stream")

\* a client with a secret key, a handler that never returns for "fetch" and
\* one that returns for "mail"
InitToolsLive ==
  /\ InitTools
  /\ worker.secret_key = "sk"
  /\ worker.tools = ("fetch" :> "blocks" @@ "mail" :> "returns")

\* the scheduler runs the thread of the stream; nothing is assumed of the
\* handlers, of their threads or of the network
SpecToolsLive == InitToolsLive /\ [][NextTools]_vars /\ WF_vars(ToolStreamOwnSteps)

(* ---------------------------------------------------------------------- *)
(* Properties of the connection                                            *)
(* ---------------------------------------------------------------------- *)
\* the positions of _run in which a response is open
OpenPcs == {"iter", "line", "parse", "emit"}

\* C7: with reconnection enabled, the sleep before the n-th consecutive
\* reconnect attempt since the last successful open lasts
\* min(base * 2^(n-1), max), and the attempt counter is 0 from a successful
\* open on, before any line of that response is read.
C7_BackoffSequence ==
  \A s \in Streams :
    /\ (cfg[s].reconnect /\ hist[s].sleeps > 0) =>
         hist[s].lastD = Min(cfg[s].reconnect_delay * 2 ^ (hist[s].lastN - 1),
                             cfg[s].max_reconnect_delay)
    /\ pc[s] \in OpenPcs => attempts[s] = 0

\* a stream that slept 30 after its sixth consecutive failure, then opened
C7_Witness ==
  /\ cfg["stream"].reconnect
  /\ cfg["stream"].reconnect_delay = DefaultDelay
  /\ hist["stream"].lastN = 6
  /\ hist["stream"].lastD = DefaultMaxDelay
  /\ pc["stream"] = "line"
  /\ attempts["stream"] = 0

\* C8: with reconnection enabled and close() never called, _run never
\* returns, and every failure is followed by another connect attempt
\* (or by a close()), however many failures came before.
C8_RetriesForever ==
  /\ [](\A s \in Streams :
          (cfg[s].reconnect /\ hist[s].closeCalls = 0) => pc[s] # "stopped")
  /\ \A s \in Streams :
       [](pc[s] = "except" /\ cfg[s].reconnect
            => <>(pc[s] = "connect" \/ hist[s].closeCalls > 0))

\* a connect attempt after MaxAttempts consecutive failures, never closed
C8_Witness ==
  /\ cfg["stream"].reconnect
  /\ hist["stream"].closeCalls = 0
  /\ hist["stream"].sleeps >= 6
  /\ hist["stream"].fails >= 6
  /\ pc["stream"] = "connect"

\* C9: with reconnection disabled and the stream not closed, handling a
\* failure calls on_error (when there is one) with the failure and ends
\* _run for good: no sleep, and no connect attempt afterwards.
C9_NoReconnectStops ==
  /\ [][\A s \in Streams :
          (pc[s] = "except" /\ pc'[s] # "except" /\ ~cfg[s].reconnect /\ ~closed[s]) =>
             /\ pc'[s] = "stopped"
             /\ hist'[s].sleeps = hist[s].sleeps
             /\ hist'[s].connects = hist[s].connects
             /\ IF cfg[s].on_error
                THEN hist'[s].errs = hist[s].errs + 1 /\ hist'[s].lastErr = exc[s]
                ELSE hist'[s].errs = hist[s].errs]_vars
  /\ [][\A s \in Streams :
          (pc[s] = "stopped" /\ ~cfg[s].reconnect) =>
             /\ pc'[s] = "stopped"
             /\ hist'[s].connects = hist[s].connects
             /\ hist'[s].sleeps = hist[s].sleeps]_vars
  /\ [](\A s \in Streams : ~cfg[s].reconnect => hist[s].sleeps = 0)

\* a stream without reconnection stopped by a read failure, observer called
C9_Witness ==
  /\ ~cfg["stream"].reconnect
  /\ cfg["stream"].on_error
  /\ ~closed["stream"]
  /\ pc["stream"] = "stopped"
  /\ hist["stream"].stopBy = "break"
  /\ hist["stream"].errs = 1
  /\ hist["stream"].lastErr = "ChunkedEncodingError"

\* C10: close() sets the closed flag for good and calls on_close; once it
\* is set _run returns at its next check: a failure handled then calls no
\* on_error and causes no sleep or reconnect, a line read then reaches
\* neither the parser nor a listener, and after _run has seen the flag no
\* connect attempt begins.
C10_CloseStops ==
  /\ [][\A s \in Streams :
          /\ closed[s] => closed'[s]
          /\ hist'[s].closeCalls # hist[s].closeCalls =>
               /\ closed'[s]
               /\ hist'[s].closes = hist[s].closes + (IF cfg[s].on_close THEN 1 ELSE 0)
          /\ (closed[s] /\ pc[s] \in {"loop", "line", "except"} /\ pc'[s] # pc[s]) =>
               /\ pc'[s] = "stopped"
               /\ hist'[s].errs = hist[s].errs
               /\ hist'[s].sleeps = hist[s].sleeps
               /\ hist'[s].connects = hist[s].connects
          /\ pc[s] = "stopped" =>
               /\ pc'[s] = "stopped"
               /\ hist'[s].connects = hist[s].connects]_vars
  /\ [](\A s \in Streams : pc[s] \in {"parse", "emit"} => ~hist[s].late)

\* a line was read after close() and _run returned without parsing it
C10_Witness ==
  /\ closed["stream"]
  /\ cfg["stream"].on_close
  /\ hist["stream"].closes = 1
  /\ hist["stream"].late
  /\ hist["stream"].nlines > 0
  /\ pc["stream"] = "stopped"
  /\ hist["stream"].stopBy = "closed"

(* ---------------------------------------------------------------------- *)
(* Properties of send_and_wait                                             *)
(* ---------------------------------------------------------------------- *)
\* C1: whatever the interleaving of the settling events of the two streams,
\* _settled[0] = True is executed at most once and the flag stays set; only
\* the listener that executed it changes error_holder and done_event, and
\* once it has left the lock nothing changes them any more.
C1_SettledOnce ==
  /\ [](whist.writes <= 1)
  /\ [][settled => settled']_vars
  /\ [][(error_holder' # error_holder \/ done_event' # done_event) =>
          (lock # "" /\ lock = whist.won)]_vars
  /\ [][(settled /\ lock = "") =>
          (error_holder' = error_holder /\ done_event' = done_event)]_vars

\* run.failed on the run stream settled the wait, a settling event of the
\* space stream found the flag set
C1_Witness ==
  /\ whist.writes = 1
  /\ whist.won = "run"
  /\ "space" \in whist.lost
  /\ settled /\ done_event
  /\ error_holder = <<"boom">>
  /\ lock = ""

\* the first settling event is run.failed with errorMessage m
FailedFirst(m) ==
  /\ whist.first # <<>>
  /\ whist.first[1].type = "run.failed"
  /\ IsDict(DataOf(whist.first[1]))
  /\ "errorMessage" \in DOMAIN ObjTable[DataOf(whist.first[1])]
  /\ Get(DataOf(whist.first[1]), "errorMessage") = m

\* C2: when the first settling event is run.failed with errorMessage m, the
\* recorded error is m from the end of that listener on, whatever arrives
\* later, and send_and_wait never returns a result: it raises the error m,
\* unless the deadline had passed before the settlement was signalled.
C2_FailedWins ==
  \A m \in {"boom"} :
    FailedFirst(m) =>
      /\ error_holder \in {<<>>, <<m>>}
      /\ lock = "" => error_holder = <<m>>
      /\ outcome # <<>> =>
           /\ outcome[1].kind # "return"
           /\ outcome[1].kind = "RuntimeError" => outcome[1].message = m
           /\ ~whist.timedOut => outcome[1] = Raised("RuntimeError", m)

\* run.failed, then run.completed on the same stream; the wait raised "boom"
C2_Witness ==
  /\ FailedFirst("boom")
  /\ Len(hist["run"].log) = 2
  /\ hist["run"].log[2].type = "run.completed"
  /\ "run" \in whist.lost
  /\ cpc = "returned"
  /\ outcome = <<Raised("RuntimeError", "boom")>>

\* the streams of the wait have been constructed
Waiting == pc["space"] # "none"

\* C3: a wait left while no settling event has set the flag is left by the
\* timeout, which raises TimeoutError (no RuntimeError), changes neither
\* the flag nor the error nor done_event, and reaches the caller after both
\* streams are closed.
C3_Timeout ==
  /\ [][(cpc = "wait" /\ cpc' # "wait" /\ ~settled) =>
          /\ outcome' = <<Raised("TimeoutError", "send_and_wait timed out")>>
          /\ cpc' = "close_space"]_vars
  /\ [][(cpc = "wait" /\ cpc' = "close_space") =>
          /\ ~done_event
          /\ outcome'[1].kind = "TimeoutError"
          /\ settled' = settled
          /\ error_holder' = error_holder
          /\ done_event' = done_event]_vars
  /\ []((cpc = "returned" /\ Waiting /\ outcome[1].kind = "TimeoutError") =>
          (closed["space"] /\ closed["run"]))

\* the wait timed out with no settlement at all
C3_Witness ==
  /\ cpc = "returned"
  /\ Waiting
  /\ outcome[1].kind = "TimeoutError"
  /\ whist.writes = 0
  /\ ~settled /\ ~done_event /\ error_holder = <<>>
  /\ closed["space"] /\ closed["run"]

\* C4: when send_and_wait returns or raises after it started its streams,
\* both streams are closed.
C4_BothClosed ==
  (cpc = "returned" /\ Waiting) => (closed["space"] /\ closed["run"])

\* a successful return with both streams closed
C4_Witness ==
  /\ cpc = "returned"
  /\ Waiting
  /\ outcome[1].kind = "return"
  /\ hist["space"].closeCalls = 1
  /\ hist["run"].closeCalls = 1
  /\ closed["space"] /\ closed["run"]

\* the contents on_space_message accepts, in arrival order
RECURSIVE Accepted(_)
Accepted(log) ==
  IF log = <<>> THEN <<>>
  ELSE LET e == Head(log)
           m == IF e.type = "space.message" /\ IsDict(e.data)
                   /\ "message" \in DOMAIN ObjTable[e.data]
                THEN ObjTable[e.data]["message"] ELSE EmptyDict
       IN (IF /\ "role" \in DOMAIN ObjTable[m]
              /\ ObjTable[m]["role"] \in {"assistant", "agent"}
              /\ "content" \in DOMAIN ObjTable[m]
              /\ ObjTable[m]["content"] \notin {"", PyNone}
           THEN <<ObjTable[m]["content"]>> ELSE <<>>)
          \o Accepted(Tail(log))

\* the call ids of the tool.started events, each at its first occurrence
RECURSIVE FirstIds(_, _)
FirstIds(log, have) ==
  IF log = <<>> THEN <<>>
  ELSE LET e  == Head(log)
           id == IF e.type = "tool.started" THEN CallId(e.data) ELSE ""
       IN IF id = "" \/ id \in have THEN FirstIds(Tail(log), have)
          ELSE <<id>> \o FirstIds(Tail(log), have \cup {id})

\* the ids of a list of tool calls
RECURSIVE Ids(_)
Ids(calls) == IF calls = <<>> THEN <<>> ELSE <<Head(calls).id>> \o Ids(Tail(calls))

\* the run stream emitted tool.started(1, x), tool.done(1, result), run.completed
Scenario(log) ==
  /\ Len(log) = 3
  /\ log[1].type = "tool.started"
  /\ Get(log[1].data, "streamId") = "1"
  /\ Get(log[1].data, "toolName") = "x"
  /\ log[2].type = "tool.done"
  /\ Get(log[2].data, "streamId") = "1"
  /\ "result" \in DOMAIN ObjTable[log[2].data]
  /\ "input" \notin DOMAIN ObjTable[log[2].data]
  /\ log[3].type = "run.completed"

\* C5: a successful wait returns the accepted texts joined with newlines in
\* arrival order, the tool calls in first-insertion order and the run id;
\* after tool.started(1, x), tool.done(1, result r), run.completed on the run
\* stream the tool calls are exactly {id 1, name x, input null, output r}.
C5_Result ==
  (cpc = "returned" /\ Waiting /\ outcome[1].kind = "return") =>
    /\ outcome[1].text = JoinText(Accepted(whist.seen["space"]))
    /\ Ids(outcome[1].tool_calls) = FirstIds(whist.seen["run"], {})
    /\ outcome[1].run = RunId
    /\ Scenario(whist.seen["run"]) =>
         outcome[1].tool_calls =
           << [id |-> "1", name |-> "x", input |-> PyNone,
               output |-> Get(whist.seen["run"][2].data, "result")] >>

RECURSIVE Invoked(_, _)
Invoked(trace, n) ==
  IF trace = <<>> THEN <<>>
  ELSE (IF Head(trace).n = n THEN << <<Head(trace).h, Head(trace).list>> >> ELSE <<>>)
       \o Invoked(Tail(trace), n)

RECURSIVE Tagged(_, _)
Tagged(lst, list) ==
  IF lst = <<>> THEN <<>> ELSE << <<Head(lst), list>> >> \o Tagged(Tail(lst), list)

\* the listeners registered for an event type, then those of "*"
Expected(h, event_type) ==
  Tagged(IF event_type \in DOMAIN h THEN h[event_type] ELSE <<>>, "type")
  \o Tagged(IF "*" \in DOMAIN h THEN h["*"] ELSE <<>>, "*")

\* the dispatch of an event ends in this step, and no on() or off() was
\* called while it was under way
DispatchEnds(s) == ev[s] # <<>> /\ ev'[s] = <<>> /\ ~hist[s].dirty

\* C11: for every emitted event (the registry not changing during its
\* dispatch) _emit invokes exactly the listeners registered for the event's
\* type, in registration order, then the "*" listeners in registration
\* order; an event is passed over only when neither list has a listener;
\* and (whatever on() and off() do meanwhile) no "*" listener runs before a
\* type-specific listener of the same event.
C11_EmitOrder ==
  /\ [](\A s \in Streams :
          \A i, j \in 1..Len(hist[s].trace) :
            (i < j /\ hist[s].trace[i].n = hist[s].trace[j].n) =>
               ~(hist[s].trace[i].list = "*" /\ hist[s].trace[j].list = "type"))
  /\ [][\A s \in Streams :
          DispatchEnds(s) =>
             Invoked(hist'[s].trace, Len(hist[s].log))
               = Expected(handlers[s], ev[s][1].type)]_vars
  /\ [][\A s \in Streams :
          (pc[s] = "parse" /\ pc'[s] = "iter" /\ hist'[s].log # hist[s].log) =>
             Expected(handlers[s], hist'[s].log[Len(hist'[s].log)].type) = <<>>]_vars

\* two listeners of the type and one of "*" invoked for the first event
C11_Witness ==
  /\ pc["stream"] = "iter"
  /\ ~hist["stream"].dirty
  /\ Len(hist["stream"].log) = 1
  /\ hist["stream"].log[1].type = "a"
  /\ Invoked(hist["stream"].trace, 1)
       = << <<"raiser", "type">>, <<"probe", "type">>, <<"probe", "*">> >>

\* C12: a listener that raises ends in _emit: the thread stays in the read
\* loop of the open response (no failure to handle, no on_error call, no
\* sleep, no connect attempt, the accumulator untouched), and the listeners
\* after it, of the type and of "*", are invoked all the same.
C12_ListenerIsolated ==
  /\ [][\A s \in Streams :
          ( /\ Len(hist'[s].trace) = Len(hist[s].trace) + 1
            /\ hist'[s].trace[Len(hist'[s].trace)].raised ) =>
             /\ pc'[s] \in {"emit", "iter"}
             /\ exc'[s] = exc[s]
             /\ attempts'[s] = attempts[s]
             /\ current'[s] = current[s]
             /\ hist'[s].errs = hist[s].errs
             /\ hist'[s].sleeps = hist[s].sleeps
             /\ hist'[s].connects = hist[s].connects]_vars
  /\ [][\A s \in Streams :
          DispatchEnds(s) =>
             LET want == Expected(handlers[s], ev[s][1].type)
                 got  == Invoked(hist'[s].trace, Len(hist[s].log))
             IN \A k \in 1..Len(want) :
                  want[k][1] = "raiser" =>
                     /\ Len(got) >= Len(want)
                     /\ \A m \in (k + 1)..Len(want) : got[m] = want[m]]_vars

\* a listener raised for the first event, a later listener of that event
\* ran, and a listener ran for the next event of the same response
C12_Witness ==
  /\ Len(hist["stream"].trace) >= 3
  /\ hist["stream"].trace[1].raised
  /\ hist["stream"].trace[1].n = 1
  /\ hist["stream"].trace[2].n = 1
  /\ ~hist["stream"].trace[2].raised
  /\ hist["stream"].trace[3].n = 2
  /\ hist["stream"].errs = 0
  /\ hist["stream"].connects = 1
  /\ pc["stream"] = "iter"

\* the number the gateway gave an event
Ord(e) == CHOOSE n \in 1..MaxDispatchLines : e.seq = ToString(n)

\* C15: within a connection the events reach _emit in the order in which
\* their frames are terminated on the wire (each only after the line that
\* terminates its frame was read), an event is emitted only when the
\* dispatch of the one before it is over, and a listener is only ever
\* invoked for the latest event emitted.
C15_WireOrder ==
  /\ [](\A s \in Streams :
          /\ \A i, j \in 1..Len(hist[s].log) :
               i < j => Ord(hist[s].log[i]) < Ord(hist[s].log[j])
          /\ \A i \in 1..Len(hist[s].log) : Ord(hist[s].log[i]) < hist[s].nlines
          /\ \A i, j \in 1..Len(hist[s].trace) :
               i < j => hist[s].trace[i].n <= hist[s].trace[j].n
          /\ ev[s] # <<>> => ev[s][1] = hist[s].log[Len(hist[s].log)])
  /\ [][\A s \in Streams :
          hist'[s].log # hist[s].log =>
             (ev[s] = <<>> /\ todo[s] = <<>> /\ line[s] = <<>>)]_vars

\* the events numbered 1 and 3 were delivered, in that order
C15_Witness ==
  /\ Len(hist["stream"].log) = 2
  /\ hist["stream"].log[1].seq = "1"
  /\ hist["stream"].log[2].seq = "3"
  /\ Len(hist["stream"].trace) >= 2
  /\ hist["stream"].trace[1].n = 1
  /\ hist["stream"].trace[Len(hist["stream"].trace)].n = 2
  /\ pc["stream"] = "iter"

(* ---------------------------------------------------------------------- *)
(* Properties of the frame parser and the decoder                          *)
(* ---------------------------------------------------------------------- *)
\* the thread of s handles the line it holds in this step
Parses(s) == pc[s] = "parse" /\ pc'[s] # "parse"

\* C13: whatever the lines, handling a line raises nothing; a frame is
\* handed to _process_raw exactly when the line is blank and at least one
\* data line was parsed since the blank line before (or the open); every
\* blank line leaves the accumulator empty, and the accumulator holds the
\* data lines since then and no id or type from before.
C13_FrameParser ==
  /\ [][\A s \in Streams :
          Parses(s) =>
             /\ pc'[s] \in {"iter", "emit"}
             /\ exc'[s] = exc[s]
             /\ hist'[s].handed \in {hist[s].handed, hist[s].handed + 1}
             /\ (hist'[s].handed = hist[s].handed + 1)
                  <=> (line[s] = <<>> /\ hist[s].dataSince >= 1)
             /\ line[s] = <<>> => current'[s] = EmptyFrame]_vars
  /\ [](\A s \in Streams :
          /\ Len(current[s].data) = hist[s].dataSince
          /\ ~hist[s].fieldSince =>
               (current[s].id = PyNone /\ current[s].type = PyNone))

\* a frame of an event line and a data line was handed over, then a frame
\* of one data line: the second event does not have the type of the first
C13_Witness ==
  /\ hist["stream"].handed = 2
  /\ Len(hist["stream"].log) = 2
  /\ hist["stream"].log[1].type = "custom"
  /\ hist["stream"].log[2].type = "unknown"
  /\ hist["stream"].log[2].id = ""
  /\ current["stream"] = EmptyFrame
  /\ pc["stream"] = "iter"

\* the tokens of the data lines of a frame that are not white space
RECURSIVE DocTokens(_)
DocTokens(vals) ==
  IF vals = <<>> THEN <<>>
  ELSE SelectSeq(Head(vals), LAMBDA t : t \notin {" ", "\n"}) \o DocTokens(Tail(vals))

\* the data lines of a frame carry one JSON object and nothing else
GoodFrame(cur) ==
  Len(DocTokens(cur.data)) = 1 /\ DocTokens(cur.data)[1] \in DOMAIN ObjTable

\* C14: a frame whose joined data is empty or is no JSON object gives no
\* event and no listener invocation, and the thread goes on reading the
\* open response: nothing raised, no on_error call, no sleep, no connect
\* attempt.
C14_BadFrameDropped ==
  [][\A s \in Streams :
       (Parses(s) /\ hist'[s].handed # hist[s].handed /\ ~GoodFrame(current[s])) =>
          /\ hist'[s].log = hist[s].log
          /\ ev'[s] = <<>> /\ todo'[s] = <<>>
          /\ pc'[s] = "iter"
          /\ exc'[s] = exc[s]
          /\ ~closed'[s]
          /\ attempts'[s] = attempts[s]
          /\ hist'[s].errs = hist[s].errs
          /\ hist'[s].sleeps = hist[s].sleeps
          /\ hist'[s].connects = hist[s].connects]_vars

\* a frame of two documents was dropped, the frame after it was delivered
C14_Witness ==
  /\ hist["stream"].handed = 2
  /\ Len(hist["stream"].log) = 1
  /\ hist["stream"].log[1].type = "ping"
  /\ hist["stream"].nlines = 5
  /\ hist["stream"].calls = 1
  /\ hist["stream"].connects = 1
  /\ hist["stream"].errs = 0
  /\ pc["stream"] = "iter"

(* ---------------------------------------------------------------------- *)
(* Properties of the tool worker                                           *)
(* ---------------------------------------------------------------------- *)
\* handle_tool_call is invoked in this step
CallHandled(s) ==
  /\ pc[s] = "emit"
  /\ todo[s] # <<>>
  /\ todo[s][1] = "handle_tool_call"
  /\ Len(hist'[s].trace) = Len(hist[s].trace) + 1

\* C16: a tool.call that names a tool without handler starts no thread,
\* invokes no handler, submits nothing and raises nothing, and the thread
\* of the stream goes on with the open response; threads and submissions
\* exist for tools with a handler only.
C16_UnknownTool ==
  /\ [][\A s \in Streams :
          ( /\ CallHandled(s)
            /\ IsDict(ev[s][1].data)
            /\ GetD(ev[s][1].data, "toolName", "") \notin DOMAIN worker.tools ) =>
             /\ worker' = worker
             /\ ~hist'[s].trace[Len(hist'[s].trace)].raised
             /\ pc'[s] \in {"emit", "iter"}
             /\ exc'[s] = exc[s]
             /\ hist'[s].errs = hist[s].errs
             /\ hist'[s].connects = hist[s].connects]_vars
  /\ [](\A i \in 1..Len(worker.threads) : worker.threads[i].name \in DOMAIN worker.tools)
  /\ [](\A k \in 1..Len(worker.posts) :
          \E i \in 1..Len(worker.threads) : worker.threads[i].call = worker.posts[k].call)

\* a call of the unknown tool was passed over, the call after it started
\* the handler of "fetch"
C16_Witness ==
  /\ Len(hist["stream"].log) = 2
  /\ IsDict(hist["stream"].log[1].data)
  /\ IsDict(hist["stream"].log[2].data)
  /\ Get(hist["stream"].log[1].data, "toolName") = "other"
  /\ Get(hist["stream"].log[2].data, "toolName") = "fetch"
  /\ Len(hist["stream"].trace) = 2
  /\ ~hist["stream"].trace[1].raised
  /\ Len(worker.threads) = 1
  /\ worker.threads[1].call = "c1"
  /\ pc["stream"] = "iter"

\* the run id the tool.call events give a call id
RunOfCall(log, c) ==
  LET i == CHOOSE i \in 1..Len(log) :
             IsDict(log[i].data) /\ GetD(log[i].data, "toolCallId", "") = c
  IN GetD(log[i].data, "runId", "")

\* the elements of a sequence that satisfy Test
Count(seq, Test(_)) == Cardinality({i \in 1..Len(seq) : Test(seq[i])})

\* C17: a handler that raises with message m makes its thread submit
\* {error: m} once, for the run id and the call id of the call, and nothing
\* else; whether that submission succeeds or fails the thread ends without
\* an exception, and the steps of the thread leave the stream alone.
C17_HandlerError ==
  /\ [][\A i \in 1..Len(worker.threads) :
          LET t == worker.threads[i] IN
          /\ (t.pc = "run" /\ worker'.threads[i].pc # "run" /\ t.handler = "raises") =>
               /\ worker'.threads[i].pc = "submit_error"
               /\ worker'.threads[i].error = HandlerMessage
               /\ worker'.posts = worker.posts
          /\ (t.pc = "submit_error" /\ worker'.threads[i].pc # "submit_error") =>
               /\ worker'.threads[i].pc = "done"
               /\ Len(worker'.posts) = Len(worker.posts) + 1
               /\ worker'.posts[Len(worker'.posts)].run = t.run
               /\ worker'.posts[Len(worker'.posts)].call = t.call
               /\ worker'.posts[Len(worker'.posts)].result = <<"error", t.error>>
               /\ pc' = pc /\ ev' = ev /\ todo' = todo /\ closed' = closed]_vars
  /\ [](\A i \in 1..Len(worker.threads) :
          LET t == worker.threads[i] IN
          /\ t.pc \in {"run", "submit", "submit_error", "done"}
          /\ t.handler = "raises" =>
               /\ t.run = RunOfCall(hist["stream"].log, t.call)
               /\ \A k \in 1..Len(worker.posts) :
                    worker.posts[k].call = t.call =>
                       /\ worker.posts[k].result = <<"error", HandlerMessage>>
                       /\ worker.posts[k].run = t.run
               /\ Count(worker.posts, LAMBDA p : p.call = t.call)
                    = Count(worker.threads, LAMBDA u : u.call = t.call /\ u.pc = "done"))

\* the handler of "fetch" raised, the submission of the error failed, and
\* the call after it started the next thread
C17_Witness ==
  /\ Len(worker.threads) = 2
  /\ worker.threads[1].handler = "raises"
  /\ worker.threads[1].pc = "done"
  /\ worker.threads[2].pc = "run"
  /\ worker.posts = << [run |-> "r1", call |-> "c1",
                        result |-> <<"error", "oops">>, ok |-> FALSE] >>
  /\ hist["stream"].nlines = 4
  /\ pc["stream"] = "iter"

\* C18: handle_tool_call starts a thread for the call and returns: the
\* handler has not run and nothing is submitted when the thread of the
\* stream goes on, the steps of the handler threads leave the thread of the
\* stream alone, and every line read is handled and every dispatch ends
\* even when no handler ever returns.
C18_Concurrent ==
  /\ [][\A s \in Streams :
          (CallHandled(s) /\ worker'.threads # worker.threads) =>
             /\ pc'[s] \in {"emit", "iter"}
             /\ Len(worker'.threads) = Len(worker.threads) + 1
             /\ worker'.threads[Len(worker'.threads)].pc = "run"
             /\ worker'.posts = worker.posts]_vars
  /\ [][(worker' # worker /\ \A s \in Streams : ~CallHandled(s) /\ worker.listen # "") =>
          (pc' = pc /\ ev' = ev /\ todo' = todo /\ line' = line /\ current' = current)]_vars
  /\ [](pc["stream"] \in {"line", "parse", "emit"} => <>(pc["stream"] = "iter"))

\* two handlers in flight, the first of which never returns, and the call
\* read after them handled as well
C18_Witness ==
  /\ Len(worker.threads) >= 2
  /\ worker.threads[1].handler = "blocks"
  /\ worker.threads[1].pc = "run"
  /\ worker.threads[2].pc = "run"
  /\ Len(hist["stream"].log) = 3
  /\ Len(hist["stream"].trace) = 3
  /\ pc["stream"] = "iter"

\* C19: listen on a client without secret key raises ValueError at once:
\* no stream is constructed or started and no listener registered, then or
\* later, and nothing of it comes from a stream.
C19_NoKey ==
  /\ [][(worker.listen = "" /\ worker'.listen # "" /\ ~Truthy(worker.secret_key)) =>
          /\ worker'.listen = "ValueError"
          /\ cfg' = cfg /\ handlers' = handlers /\ pc' = pc /\ hist' = hist]_vars
  /\ [](worker.listen = "ValueError" =>
          /\ ~Truthy(worker.secret_key)
          /\ \A s \in Streams :
               /\ cfg[s] = NoStream
               /\ handlers[s] = <<>>
               /\ pc[s] = "none"
               /\ hist[s].connects = 0
               /\ hist[s].errs = 0
          /\ worker.threads = <<>>)
  /\ [](worker.listen = "returned" => Truthy(worker.secret_key))

\* listen raised on a client whose secret key is the empty string
C19_Witness ==
  /\ worker.listen = "ValueError"
  /\ worker.secret_key = ""
  /\ pc["stream"] = "none"

(* ---------------------------------------------------------------------- *)
(* Properties of the correlation state                                     *)
(* ---------------------------------------------------------------------- *)
\* C20: the call ids of tool_calls are unique; a record, once stored, keeps
\* its place, its id and its name whatever tool.started or tool.done comes
\* later; and tool.done creates no record.
C20_FirstWriteWins ==
  /\ [](\A i, j \in 1..Len(tool_calls) : i # j => tool_calls[i].id # tool_calls[j].id)
  /\ [][/\ Len(tool_calls') >= Len(tool_calls)
        /\ \A i \in 1..Len(tool_calls) :
             /\ tool_calls'[i].id = tool_calls[i].id
             /\ tool_calls'[i].name = tool_calls[i].name]_vars
  /\ [][\A s \in WaitStreams :
          (pc[s] = "emit" /\ todo[s] # <<>> /\ todo[s][1] = "on_tool_done") =>
             Len(tool_calls') = Len(tool_calls)]_vars

(* ---------------------------------------------------------------------- *)
(* Properties of the settlement lock                                       *)
(* ---------------------------------------------------------------------- *)
\* a step of the read context of stream s
StepOf(s) == pc'[s] # pc[s] \/ todo'[s] # todo[s]

\* the shared state of a wait that the step writes
Mutates ==
  \/ settled' # settled
  \/ text_parts' # text_parts
  \/ tool_calls' # tool_calls
  \/ error_holder' # error_holder

\* C21: every step of a stream read context that writes settled, text_parts,
\* tool_calls or error_holder is taken by the holder of the lock `settled`
\* (the step acquires it or holds it already), and nothing writes text_parts
\* or tool_calls between the wake-up of the caller and its read of the result.
C21_Serialized ==
  /\ [][\A s \in WaitStreams :
          (StepOf(s) /\ Mutates) => (lock = s \/ lock' = s)]_vars
  /\ [][cpc = "check" => (text_parts' = text_parts /\ tool_calls' = tool_calls)]_vars

(* ---------------------------------------------------------------------- *)
(* Properties of the stream-level error event                              *)
(* ---------------------------------------------------------------------- *)
\* the first settling event of the wait is a stream-level error event
ErrorFirst ==
  /\ whist.first # <<>>
  /\ whist.first[1].type = "error"

\* C22 as stated: when the first settling event is an error event, the
\* recorded error is the fixed message "Stream error" once its listener has
\* ended, and send_and_wait raises RuntimeError("Stream error") unless the
\* deadline had passed before.
C22_GenericMessage ==
  ErrorFirst =>
    /\ lock = "" => error_holder = <<"Stream error">>
    /\ (outcome # <<>> /\ ~whist.timedOut) =>
         outcome[1] = Raised("RuntimeError", "Stream error")

\* C22: when the first settling event is an error event whose payload is a
\* dict, the recorded error is the string of the payload's "error" field,
\* or "Stream error" when the payload has none, and send_and_wait raises a
\* RuntimeError with that message unless the deadline had passed before;
\* when the payload is no dict, no error is recorded, done_event stays
\* clear and the wait ends by TimeoutError.
C22_ErrorMessage ==
  ErrorFirst =>
    LET d == IF Truthy(whist.first[1].data) THEN whist.first[1].data ELSE EmptyDict IN
    IF IsDict(d)
    THEN LET m == IF "error" \in DOMAIN ObjTable[d]
                  THEN Str(ObjTable[d]["error"]) ELSE "Stream error"
         IN /\ error_holder \in {<<>>, <<m>>}
            /\ lock = "" => error_holder = <<m>>
            /\ outcome # <<>> =>
                 /\ outcome[1].kind # "return"
                 /\ outcome[1].kind = "RuntimeError" => outcome[1].message = m
                 /\ ~whist.timedOut => outcome[1] = Raised("RuntimeError", m)
    ELSE /\ error_holder = <<>>
         /\ ~done_event
         /\ outcome # <<>> => outcome[1].kind = "TimeoutError"

\* an error event with the error field "gone" settled the wait before
\* run.completed arrived, and send_and_wait raised "gone"
C22_Witness ==
  /\ ErrorFirst
  /\ whist.first[1].data = "{error2.d}"
  /\ Len(hist["run"].log) >= 1
  /\ hist["run"].log[1].type = "run.completed"
  /\ "run" \in whist.lost
  /\ cpc = "returned"
  /\ outcome = <<Raised("RuntimeError", "gone")>>

(* ---------------------------------------------------------------------- *)
(* Properties of the settlement state                                      *)
(* ---------------------------------------------------------------------- *)
\* the first settling event of the wait is a success event
SuccessFirst ==
  /\ whist.first # <<>>
  /\ whist.first[1].type \in {"run.completed", "agent.inactive"}

\* C28: while the lock `settled` is free, done_event is set exactly when
\* the flag is set, and an error is recorded only when the flag is set; a
\* recorded error is never changed; a wait settled by a success event
\* never has an error.
C28_SettledState ==
  /\ [](lock = "" => /\ done_event <=> settled
                     /\ error_holder # <<>> => settled)
  /\ [][error_holder # <<>> => error_holder' = error_holder]_vars
  /\ [](SuccessFirst => error_holder = <<>>)

(* ---------------------------------------------------------------------- *)
(* Properties of the payload and of the field values                       *)
(* ---------------------------------------------------------------------- *)
\* C23: the event decoded from a frame that carries one JSON object has as
\* its payload the value of the object's "data" field when the object has
\* that field, whatever the value, and the whole object otherwise.
C23_Payload ==
  [][\A s \in Streams :
       (Parses(s) /\ hist'[s].handed # hist[s].handed /\ GoodFrame(current[s])) =>
          LET doc == DocTokens(current[s].data)[1]
              n   == Len(hist'[s].log)
          IN /\ n = Len(hist[s].log) + 1
             /\ hist'[s].log[n].data =
                  IF "data" \in DOMAIN ObjTable[doc] THEN ObjTable[doc]["data"] ELSE doc]_vars

\* the value of a field line with at most one leading space taken off
StripOne(toks) == IF toks # <<>> /\ Head(toks) = " " THEN Tail(toks) ELSE toks

\* C24: a line with a colon after its field name is split at the first
\* colon, and the fields id, event and data store the rest of the line
\* without its first space, if it starts with one, and with every further
\* space kept.
C24_OneSpace ==
  [][\A s \in Streams :
       (Parses(s) /\ FindColon(line[s]) > 1) =>
          LET colon == FindColon(line[s])
              field == SubSeq(line[s], 1, colon - 1)
              value == StripOne(SubSeq(line[s], colon + 1, Len(line[s])))
          IN /\ field = <<"id">> => current'[s].id = Text(value)
             /\ field = <<"event">> => current'[s].type = Text(value)
             /\ field = <<"data">> => current'[s].data = Append(current[s].data, value)]_vars

(* ---------------------------------------------------------------------- *)
(* Properties of the end of a response                                     *)
(* ---------------------------------------------------------------------- *)
\* C25: every connect attempt after the first follows a handled failure
\* and its backoff sleep, so there is at most one attempt more than there
\* were sleeps, and a stream without reconnection makes at most one connect
\* attempt.
C25_ConnectAfterBackoff ==
  /\ \A s \in Streams : hist[s].connects <= hist[s].sleeps + 1
  /\ \A s \in Streams : ~cfg[s].reconnect => hist[s].connects <= 1

(* ---------------------------------------------------------------------- *)
(* Properties of the submission of a result                                *)
(* ---------------------------------------------------------------------- *)
\* C26: for a call whose handler returns the value r, every submission
\* made for the call carries r and the run id of the call, never an error
\* payload, and there is one submission for each thread of the call that
\* has got past submit_result, whether the POST succeeded or failed.
C26_OneSubmission ==
  \A i \in 1..Len(worker.threads) :
    LET t == worker.threads[i] IN
    t.handler = "returns" =>
      /\ \A k \in 1..Len(worker.posts) :
           worker.posts[k].call = t.call =>
              /\ worker.posts[k].result = <<"value", HandlerResult>>
              /\ worker.posts[k].run = t.run
      /\ Count(worker.posts, LAMBDA p : p.call = t.call)
           = Count(worker.threads, LAMBDA u : u.call = t.call /\ u.pc \notin {"run", "submit"})

(* ---------------------------------------------------------------------- *)
(* Properties of the dispatch of an event of type "*"                      *)
(* ---------------------------------------------------------------------- *)
\* the entries of the registry that match an event type: those under the
\* type and those under "*", each key once
Matching(h, event_type) ==
  HandlerList(h, event_type) \o (IF event_type = "*" THEN <<>> ELSE HandlerList(h, "*"))

\* C27: when the dispatch of an event ends (the registry not changing
\* during it), every listener has been invoked for the event as many times
\* as it has entries that match the event's type, the type "*" included.
C27_OncePerEntry ==
  [][\A s \in Streams :
       DispatchEnds(s) =>
         \A l \in OwnListeners :
           Count(Invoked(hist'[s].trace, Len(hist[s].log)), LAMBDA x : x[1] = l)
             = Count(Matching(handlers[s], ev[s][1].type), LAMBDA x : x = l)]_vars

====
